---- MODULE Spec2Model ----
(***************************************************************************)
(* Planetary feature explorer: the timeline engine of app.js (cache,       *)
(* knowledge-base cascade, comparison mode), the scientific estimation     *)
(* model (FeatureAnalyzer), and the archive loader (parseKML,              *)
(* loadPlanetFeatures / loadFeatures).                                     *)
(*                                                                         *)
(* Ages are years before present counted in units of 100 years, so that    *)
(* 4 000 000 000 years is 40 000 000.  Decimal numbers read from text      *)
(* ("3.5") are kept in tenths (35).  Null and NaN are integer sentinels    *)
(* below zero: JavaScript's null / undefined and NaN.                      *)
(***************************************************************************)
EXTENDS Integers, Sequences, FiniteSets, Bags, TLC

\* ---------------------------------------------------------------- bounds
MaxTasks == 2

\* ------------------------------------------------------------- sentinels
Null == 0 - 1
NaN == 0 - 2
NoStr == "<none>"
\* the number Infinity
Infinity == 0 - 3

Billion == 10000000
Million == 10000
Thousand == 10

\* ------------------------------------------------------ static reference
Bodies == {"MOON", "MARS"}

\* A feature type string, seen through the substring tests the code makes.
TypeIncludes(featureType, kw) ==
    CASE featureType = "Crater"   -> kw \in {"Crater", "crater"}
      [] featureType = "Mons"     -> kw \in {"Mons", "mons"}
      [] featureType = "Tholus"   -> kw \in {"Tholus", "tholus"}
      [] featureType = "Patera"   -> kw \in {"Patera", "patera"}
      [] featureType = "Vallis"   -> kw \in {"Vallis", "vallis"}
      [] featureType = "Fossa"    -> kw \in {"Fossa", "fossa"}
      [] featureType = "Mare"     -> kw \in {"Mare", "mare"}
      [] featureType = "Planitia" -> kw \in {"Planitia", "planitia"}
      [] featureType = "Planum"   -> kw \in {"Planum", "planum"}
      [] featureType = "Chasma"   -> kw \in {"Chasma", "chasma"}
      [] OTHER -> FALSE

Event(phase, years, source, confidence) ==
    [phase |-> phase, years |-> years, source |-> source, confidence |-> confidence]

\* lib/timeline-data (hand-curated timelines), keyed by body and feature name
TIMELINE_DATA(body, name) ==
    IF body = "MARS" /\ name = "Olympus Mons"
    THEN << Event("Tharsis Formation", 37000000, "NASA", ""),
            Event("Last Eruption", 250000, "Mars Express", ""),
            Event("Current State", 0, "NASA", "") >>
    ELSE << >>

\* ----------------------------------------------------- timeframe strings
\* A timeframe string is represented by what the parser's patterns see in
\* it: the number (tenths) in front of "billion", "million", "thousand"
\* (Null when the pattern does not match) and whether it says "ancient".
Timeframe(b, m, t, anc) == [billion |-> b, million |-> m, thousand |-> t, ancient |-> anc]
NoTimeframe == [billion |-> Null, million |-> Null, thousand |-> Null, ancient |-> FALSE, empty |-> TRUE]
PresentDay == [billion |-> Null, million |-> Null, thousand |-> Null, ancient |-> FALSE, present |-> TRUE]

IsEmptyStr(tf) == "empty" \in DOMAIN tf
IsPresentDay(tf) == "present" \in DOMAIN tf

parseTimeframeToYears(timeframe) ==
    IF IsEmptyStr(timeframe) \/ IsPresentDay(timeframe) THEN 0
    ELSE IF timeframe.billion # Null THEN timeframe.billion * (Billion \div 10)
    ELSE IF timeframe.million # Null THEN timeframe.million * (Million \div 10)
    ELSE IF timeframe.thousand # Null THEN timeframe.thousand * (Thousand \div 10)
    ELSE IF timeframe.ancient THEN 4 * Billion
    ELSE Null

getEstimatedFormationTime(featureType, planetName) ==
    IF planetName = "MOON" THEN
        IF TypeIncludes(featureType, "mare") THEN Timeframe(30, Null, Null, FALSE)
        ELSE IF TypeIncludes(featureType, "crater") THEN Timeframe(1, Null, Null, FALSE)
        ELSE Timeframe(30, Null, Null, FALSE)
    ELSE IF planetName = "MARS" THEN
        IF TypeIncludes(featureType, "mons") \/ TypeIncludes(featureType, "volcan")
            THEN Timeframe(35, Null, Null, FALSE)
        ELSE IF TypeIncludes(featureType, "vallis") \/ TypeIncludes(featureType, "channel")
            THEN Timeframe(35, Null, Null, FALSE)
        ELSE IF TypeIncludes(featureType, "crater") THEN Timeframe(1, Null, Null, FALSE)
        ELSE Timeframe(30, Null, Null, FALSE)
    ELSE Timeframe(Null, Null, Null, TRUE)

\* ------------------------------------------- FeatureAnalyzer (estimation)
\* props: [name, featureType, diameter, source]; diameter Null when absent.
Truthy(n) == n # Null /\ n # NaN /\ n # 0

\* variant: the two largest MARS buckets are exchanged
estimateCraterAge_swapped(planet, diameter) ==
    IF planet = "MARS" THEN
        IF diameter > 100 THEN 37000000
        ELSE IF diameter > 50 THEN 40000000
        ELSE IF diameter > 20 THEN 32000000
        ELSE IF diameter > 5 THEN 15000000
        ELSE 5000000
    ELSE 20000000

estimateCraterAge(planet, diameter) ==
    IF planet = "MARS" THEN
        IF diameter > 100 THEN 40000000
        ELSE IF diameter > 50 THEN 37000000
        ELSE IF diameter > 20 THEN 32000000
        ELSE IF diameter > 5 THEN 15000000
        ELSE 5000000
    ELSE IF planet = "MOON" THEN
        IF diameter > 100 THEN 39500000
        ELSE IF diameter > 50 THEN 37000000
        ELSE IF diameter > 20 THEN 25000000
        ELSE 8000000
    ELSE 20000000

analyzeCrater(props, planet) ==
    LET diameter == IF Truthy(props.diameter) THEN props.diameter ELSE 10
        estimatedAge == estimateCraterAge(planet, diameter)
    IN  << Event("Impact Formation", estimatedAge, "Crater chronology model",
                 IF diameter > 50 THEN "high" ELSE "medium"),
           Event("Crater Modification", estimatedAge, "Impact mechanics", "high") >>
        \o (IF estimatedAge > 20000000
            THEN << Event("Erosion Period", estimatedAge \div 2, "Erosion models", "medium") >>
            ELSE << >>)
        \o << Event("Current State", 0, "Current observations", "high") >>

volcanicModels_estimateAge(planet, diameter) ==
    IF planet = "MARS" THEN
        IF diameter > 200
        THEN [formation |-> 37000000, peak_activity |-> 30000000, late_activity |-> 5000000]
        ELSE [formation |-> 35000000, peak_activity |-> 32000000, late_activity |-> 29000000]
    ELSE [formation |-> Null, peak_activity |-> Null, late_activity |-> Null]

analyzeVolcano(props, planet) ==
    LET diameter == IF Truthy(props.diameter) THEN props.diameter ELSE 100
        ages == volcanicModels_estimateAge(planet, diameter)
    IN  IF ages.formation # Null
        THEN << Event("Volcanic Province Formation", ages.formation, "Tectonic models", "medium"),
                Event("Shield Building", ages.peak_activity, "Volcanic stratigraphy", "high"),
                Event("Late Activity", ages.late_activity, "Crater counting on flows", "medium"),
                Event("Current State", 0, "Modern imaging", "high") >>
        ELSE << >>

analyzeChannel(props, planet) ==
    IF planet = "MARS"
    THEN << Event("Tectonic Initiation", 37000000, "Structural geology", "medium"),
            Event("Water Flow Period", 35000000, "Hydrological models", "medium"),
            Event("Desiccation", 30000000, "Climate models", "low"),
            Event("Current State", 0, "Current observations", "high") >>
    ELSE << >>

analyzeMare(props, planet) ==
    << Event("Basin Impact", 39000000, "Lunar chronology", "high"),
       Event("Mare Flooding", 37000000, "Apollo sample dating", "high"),
       Event("Volcanic Cessation", 32000000, "Thermal models", "high"),
       Event("Current State", 0, "LRO imaging", "high") >>

analyzePlain(props, planet) ==
    IF planet = "MARS"
    THEN << Event("Surface Formation", 35000000, "Geological mapping", "medium"),
            Event("Modification", 30000000, "Aeolian studies", "medium"),
            Event("Current State", 0, "Orbital imaging", "high") >>
    ELSE << >>

generateGenericTimeline(props, planet) ==
    << Event("Formation", 35000000, "Estimated", "low"),
       Event("Current State", 0, "Observations", "high") >>

analyzeFeature(props, planet) ==
    LET featureType == props.featureType
    IN  IF TypeIncludes(featureType, "Crater") THEN analyzeCrater(props, planet)
        ELSE IF TypeIncludes(featureType, "Mons") \/ TypeIncludes(featureType, "Tholus")
                \/ TypeIncludes(featureType, "Patera") THEN analyzeVolcano(props, planet)
        ELSE IF TypeIncludes(featureType, "Vallis") \/ TypeIncludes(featureType, "Fossa")
            THEN analyzeChannel(props, planet)
        ELSE IF TypeIncludes(featureType, "Mare") THEN analyzeMare(props, planet)
        ELSE IF TypeIncludes(featureType, "Planitia") \/ TypeIncludes(featureType, "Planum")
            THEN analyzePlain(props, planet)
        ELSE generateGenericTimeline(props, planet)

isNotableFeature(props) ==
    \/ props.source = "famous"
    \/ (Truthy(props.diameter) /\ props.diameter > 50)
    \/ \E type \in {"Mons", "Tholus", "Patera", "Planum", "Mare", "Vallis", "Chasma"} :
          props.featureType # NoStr /\ TypeIncludes(props.featureType, type)

\* --------------------------------------------- knowledge-base (Wikipedia)
\* A pattern match in the page text: the captured number (tenths) and unit.
Match(num, unit) == [num |-> num, unit |-> unit]
NoMatch == [num |-> Null, unit |-> NoStr]

\* `~${num} ${unit} years ago`
MatchTimeframe(m) ==
    Timeframe(IF m.unit = "billion" THEN m.num ELSE Null,
              IF m.unit = "million" THEN m.num ELSE Null,
              IF m.unit = "thousand" THEN m.num ELSE Null, FALSE)

\* fetchWikipediaTimeline's result: null, or the page data.  extract is
\* NoStr when the intro response carries no extract; fullText.truthy is
\* FALSE when the full-text response carries none (or an empty one).
NoWiki == [found |-> FALSE]
WikiData(extract, fullText, infobox) ==
    [found |-> TRUE, extract |-> extract, fullText |-> fullText, infobox |-> infobox]

Infobox(age, formed, lastEruption) == [age |-> age, formed |-> formed, lastEruption |-> lastEruption]
FullText(truthy, formation, eruptions, volcanism) ==
    [truthy |-> truthy, formation |-> formation, eruptions |-> eruptions, volcanism |-> volcanism]

RECURSIVE mostRecentOf(_, _)
\* eruptions.reduce((prev, curr) => currNum < prevNum ? curr : prev), prev given
mostRecentOf(prev, rest) ==
    IF rest = << >> THEN prev
    ELSE mostRecentOf(IF Head(rest).num < prev.num THEN Head(rest) ELSE prev, Tail(rest))

\* (x / 1e9).toFixed(1), as tenths of a billion
toFixed1Billion(years) == (years * 10 + (Billion \div 2)) \div Billion

Timeline(events) == [ok |-> TRUE, events |-> events]
Thrown == [ok |-> FALSE, events |-> << >>]

\* the structured branch of generateTimeline (app.js 734-749)
structuredEvents(planetName, featureName) ==
    [i \in 1..Len(TIMELINE_DATA(planetName, featureName)) |->
        LET event == TIMELINE_DATA(planetName, featureName)[i]
        IN  Event(event.phase, event.years, event.source, "")]

\* the Wikipedia branch of generateTimeline (app.js 752-861)
wikiEvents(featureType, planetName, wikiData) ==
    LET infobox == wikiData.infobox
        fullText == wikiData.fullText
        hasAge == ~IsEmptyStr(infobox.age)
        hasFormed == ~IsEmptyStr(infobox.formed)
        formationTimeStr ==
            IF hasAge THEN infobox.age
            ELSE IF hasFormed THEN infobox.formed
            ELSE IF fullText.formation # NoMatch THEN MatchTimeframe(fullText.formation)
            ELSE getEstimatedFormationTime(featureType, planetName)
        formation == Event("Formation", parseTimeframeToYears(formationTimeStr),
                           IF hasAge \/ hasFormed THEN "Wikipedia (Infobox)" ELSE "Wikipedia", "")
        eruptions == SelectSeq(fullText.eruptions, LAMBDA m : m # NoMatch)
        mostRecent == mostRecentOf(Head(eruptions), Tail(eruptions))
        formationYears == parseTimeframeToYears(getEstimatedFormationTime(featureType, planetName))
        midTime == formationYears \div 2
        midTimeframe == Timeframe(toFixed1Billion(midTime), Null, Null, FALSE)
        activity ==
            IF ~IsEmptyStr(infobox.lastEruption)
            THEN << Event("Last Eruption", parseTimeframeToYears(infobox.lastEruption),
                          "Wikipedia (Infobox)", "") >>
            ELSE IF Len(eruptions) > 0
            THEN << Event("Last Major Activity", parseTimeframeToYears(MatchTimeframe(mostRecent)),
                          "Wikipedia", "") >>
            ELSE IF fullText.volcanism /\ Truthy(formationYears) /\ formationYears > Billion
            THEN << Event("Major Activity", parseTimeframeToYears(midTimeframe), "Estimated", "") >>
            ELSE << >>
    IN  IF wikiData.extract = NoStr
        THEN Thrown
        ELSE Timeline(<< formation >> \o activity \o << Event("Current State", 0, "Wikipedia", "") >>)

\* the estimation branch of generateTimeline (app.js 863-897)
estimatedEvents(props, planetName) ==
    LET analyzedEvents == analyzeFeature(props, planetName)
        formationTime == getEstimatedFormationTime(props.featureType, planetName)
    IN  IF Len(analyzedEvents) > 0
        THEN [i \in 1..Len(analyzedEvents) |->
                Event(analyzedEvents[i].phase, analyzedEvents[i].years,
                      analyzedEvents[i].source, analyzedEvents[i].confidence)]
        ELSE << Event("Formation", parseTimeframeToYears(formationTime), "Estimated", ""),
                Event("Current State", 0, "USGS Data", "") >>

\* app.js generateTimeline(feature, wikiData), with currentPlanet.usgs_name
generateTimeline(props, wikiData, planetName) ==
    IF Len(TIMELINE_DATA(planetName, props.name)) > 0
    THEN Timeline(structuredEvents(planetName, props.name))
    ELSE IF wikiData.found /\ wikiData.fullText.truthy
    THEN wikiEvents(props.featureType, planetName, wikiData)
    ELSE Timeline(estimatedEvents(props, planetName))

\* app/page.tsx generateTimeline(feature), with selectedPlanet.toUpperCase();
\* feature is a FamousFeature {name, type, diameter}: isNotableFeature gets
\* it as `properties`, which has neither `source` nor `featureType`.
generateTimeline_page(feature, planetKey) ==
    IF Len(TIMELINE_DATA(planetKey, feature.name)) > 0
    THEN TIMELINE_DATA(planetKey, feature.name)
    ELSE IF isNotableFeature([source |-> NoStr, featureType |-> NoStr, diameter |-> feature.diameter])
    THEN analyzeFeature([name |-> feature.name, featureType |-> feature.type,
                         diameter |-> feature.diameter, source |-> NoStr], planetKey)
    ELSE << >>

\* ================================================== the application state
\* The specifications share the variables below.
\*   Spec         the timeline engine of app.js under overlapping calls
\*   SpecResolve  one timeline resolution at a time, request by request
\*   SpecContract SpecResolve with callers that break the input contract
\*   SpecLoad     one load of a body's feature list
\*   SpecWait     a load and a resolution whose services may stay silent
\*   SpecBounds   one tile or area selection
\*   SpecRegions  region assignment over a loaded feature list
\*   SpecSphere   one coordinate conversion to the globe and back
\*   SpecHierarchy the sidebar's parent / child tree of one feature list
\*   SpecScreen   the feature details box under overlapping selections
\*   SpecSelect   body selections and the feature loads they start
\*   SpecCompare  the comparison selection of app.js and of page.tsx
\* tasks is the bag of showFeatureDetails / showComparison calls suspended
\* in `await fetchWikipediaTimeline(...)`.  comparisonEls says whether the
\* sidebar still holds the elements that showComparison wrote.  call is the
\* resolution SpecResolve follows, load the load SpecLoad follows, geo the
\* tile selection (SpecBounds), the region assignment (SpecRegions), the
\* coordinate conversion (SpecSphere), the feature tree (SpecHierarchy), the
\* sidebar (SpecScreen), the loaded feature list (SpecSelect) or the last
\* render (SpecCompare).
VARIABLES currentPlanet, timelineCache, comparisonMode, comparisonFeatures,
          panelVisible, tasks, comparisonEls, call, load, geo

appVars == << currentPlanet, timelineCache, comparisonMode, comparisonFeatures,
              panelVisible, tasks, comparisonEls >>
vars == << currentPlanet, timelineCache, comparisonMode, comparisonFeatures,
           panelVisible, tasks, comparisonEls, call, load, geo >>

Props(name, featureType, diameter, source) ==
    [name |-> name, featureType |-> featureType, diameter |-> diameter, source |-> source]

\* the feature list a finished loadFeatures leaves in `features`, per body
FeatureList(body) ==
    CASE body = "MOON" -> { Props("Beer", "Crater", 9, "kmz") }
      [] body = "MARS" -> { Props("Olympus Mons", "Mons", 610, "kmz"),
                            Props("Gale", "Crater", 154, "kmz") }
      [] OTHER -> {}

AllFeatures == UNION { FeatureList(b) : b \in Bodies }
NotableNames == { f.name : f \in { g \in AllFeatures : isNotableFeature(g) } }

\* cache keys `${currentPlanet.usgs_name}_${name}`
CacheKeys == Bodies \X NotableNames
cacheKey(planetName, name) == << planetName, name >>
NoEntry == [present |-> FALSE, timeline |-> << >>]
Entry(timeline) == [present |-> TRUE, timeline |-> timeline]

\* the knowledge-base page of a feature name: its infobox and what the
\* patterns find in its text
EmptyInfobox == Infobox(NoTimeframe, NoTimeframe, NoTimeframe)
NoFullText == FullText(FALSE, NoMatch, << NoMatch, NoMatch, NoMatch >>, FALSE)
WikiPage(name) ==
    IF name = "Gale"
    THEN [infobox |-> Infobox(Timeframe(36, Null, Null, FALSE), NoTimeframe, NoTimeframe),
          fullText |-> FullText(TRUE, NoMatch, << NoMatch, NoMatch, NoMatch >>, FALSE)]
    ELSE IF name = "Tycho"
    THEN \* an infobox whose age names a period ("Copernican"), no quantity
         [infobox |-> Infobox(Timeframe(Null, Null, Null, FALSE), NoTimeframe, NoTimeframe),
          fullText |-> FullText(TRUE, NoMatch, << NoMatch, NoMatch, NoMatch >>, FALSE)]
    ELSE IF name = "Mare Imbrium"
    THEN \* "... the last eruption was about 200 thousand years ago ...
         \* volcanic activity began 3.5 billion years ago"
         [infobox |-> EmptyInfobox,
          fullText |-> FullText(TRUE, NoMatch,
                                << Match(2000, "thousand"), NoMatch, Match(35, "billion") >>,
                                TRUE)]
    ELSE IF name = "Ma'adim Vallis"
    THEN \* lava is mentioned, no quantity anywhere
         [infobox |-> EmptyInfobox,
          fullText |-> FullText(TRUE, NoMatch, << NoMatch, NoMatch, NoMatch >>, TRUE)]
    ELSE IF name = "Utopia Planitia"
    THEN \* an infobox age of 4.1 billion years, lava mentioned without a date
         [infobox |-> Infobox(Timeframe(41, Null, Null, FALSE), NoTimeframe, NoTimeframe),
          fullText |-> FullText(TRUE, NoMatch, << NoMatch, NoMatch, NoMatch >>, TRUE)]
    ELSE [infobox |-> EmptyInfobox,
          fullText |-> FullText(TRUE, Match(35, "billion"),
                                << NoMatch, Match(25, "million"), NoMatch >>, TRUE)]

\* what the four requests of one fetchWikipediaTimeline call are answered
\* with: "fail" is a rejected fetch or a body that response.json() or the
\* property chain cannot read, "empty" a search without a title,
\* "noextract" a page object without the extract field
Responses ==
    [search : {"fail", "empty", "ok"}, revisions : {"fail", "ok"},
     fullText : {"fail", "noextract", "ok"}, intro : {"fail", "noextract", "ok"}]
NoResponses == [search |-> NoStr, revisions |-> NoStr, fullText |-> NoStr, intro |-> NoStr]

\* fetchWikipediaTimeline(featureName, planetName): its return value, given
\* the answers to its requests.  Between its awaits the function touches
\* only its own locals.
fetchWikipediaTimeline(featureName, responses) ==
    IF responses.search = "fail" THEN NoWiki
    ELSE IF responses.search = "empty" THEN NoWiki
    ELSE IF responses.revisions = "fail" THEN NoWiki
    ELSE IF responses.fullText = "fail" THEN NoWiki
    ELSE IF responses.intro = "fail" THEN NoWiki
    ELSE WikiData(IF responses.intro = "ok" THEN "intro" ELSE NoStr,
                  IF responses.fullText = "ok" THEN WikiPage(featureName).fullText
                  ELSE NoFullText,
                  WikiPage(featureName).infobox)

\* what fetchWikipediaTimeline(featureName, ...) can return
Returned(featureName) == { fetchWikipediaTimeline(featureName, r) : r \in Responses }

\* a showFeatureDetails / showComparison call suspended in
\* `await fetchWikipediaTimeline(...)` for feats[idx], started on body
Task(kind, feats, body, idx) == [kind |-> kind, feats |-> feats, body |-> body, idx |-> idx]
Put(bag, task) == bag (+) SetToBag({task})
Take(bag, task) == bag (-) SetToBag({task})
InFlight == BagToSet(tasks)

NoFeature == Props(NoStr, NoStr, Null, NoStr)
IdleCall ==
    [impl |-> NoStr, pc |-> "idle", feature |-> NoFeature, responses |-> NoResponses,
     ok |-> TRUE, timeline |-> << >>]
NoLoad == [pc |-> "none"]
NoGeo == [pc |-> "none"]

\* ------------------------------------------------ Spec: the timeline engine
\* init() -> loadPlanet('Moon')
Init ==
    /\ currentPlanet = "MOON"
    /\ timelineCache = [k \in CacheKeys |-> NoEntry]
    /\ comparisonMode = FALSE
    /\ comparisonFeatures = << >>
    /\ panelVisible = FALSE
    /\ tasks = EmptyBag
    /\ comparisonEls = FALSE
    /\ call = IdleCall
    /\ load = NoLoad
    /\ geo = NoGeo

\* loadPlanet(planetKey), from the planet selector's change event; its
\* clearTileSelection and loadFeatures overwrite the sidebar
loadPlanet(planetKey) ==
    /\ planetKey # currentPlanet
    /\ currentPlanet' = planetKey
    /\ comparisonEls' = FALSE
    /\ UNCHANGED << timelineCache, comparisonMode, comparisonFeatures, panelVisible, tasks >>
    /\ UNCHANGED << call, load, geo >>

\* clearTileSelection(): the tile layer is outside the model, the sidebar is reset
clearTileSelection ==
    /\ comparisonEls' = FALSE
    /\ UNCHANGED << currentPlanet, timelineCache, comparisonMode, comparisonFeatures,
                    panelVisible, tasks >>
    /\ UNCHANGED << call, load, geo >>

\* `timelineCache = {}`
clearedCache == [k \in CacheKeys |-> NoEntry]

\* variant: the cache is cleared when comparison mode is left, too
toggleComparisonMode_clearsOnLeave ==
    /\ comparisonMode' = ~comparisonMode
    /\ timelineCache' = clearedCache
    /\ comparisonFeatures' = << >>
    /\ panelVisible' = ~comparisonMode
    /\ UNCHANGED << currentPlanet, tasks, comparisonEls >>
    /\ UNCHANGED << call, load, geo >>

toggleComparisonMode ==
    /\ comparisonMode' = ~comparisonMode
    /\ timelineCache' = IF ~comparisonMode THEN clearedCache ELSE timelineCache
    /\ comparisonFeatures' = << >>
    /\ panelVisible' = ~comparisonMode
    /\ UNCHANGED << currentPlanet, tasks, comparisonEls >>
    /\ UNCHANGED << call, load, geo >>

\* addToComparison(feature): the new value of comparisonFeatures
addToComparison(feature) ==
    IF ~isNotableFeature(feature) THEN comparisonFeatures
    ELSE IF \E i \in 1..Len(comparisonFeatures) : comparisonFeatures[i].name = feature.name
    THEN comparisonFeatures
    ELSE Append(comparisonFeatures, feature)

\* variant: the cache is never consulted
cacheHit_never(key) == FALSE

\* `if (timelineCache[cacheKey])` / `if (!timeline1)`
cacheHit(key) == timelineCache[key].present

CurFeature(task) == task.feats[task.idx]
CurKey(task) == cacheKey(task.body, CurFeature(task).name)

\* showComparison after both timelines are known (app.js 1237-1368)
Render(task) ==
    /\ tasks' = Take(tasks, task)
    /\ comparisonMode' = IF comparisonEls THEN FALSE ELSE comparisonMode

\* the continuation of showFeatureDetails / showComparison once
\* fetchWikipediaTimeline has returned wikiData: generateTimeline, cache
\* store, display (app.js 1035-1058, 1226-1235).  When generateTimeline
\* throws, the call ends there as a rejected promise.
Finish(task, wikiData) ==
    LET r == generateTimeline(CurFeature(task), wikiData, currentPlanet)
        stored == [timelineCache EXCEPT ![CurKey(task)] = Entry(r.events)]
    IN  IF ~r.ok
        THEN /\ tasks' = Take(tasks, task)
             /\ UNCHANGED << timelineCache, comparisonMode >>
        ELSE /\ timelineCache' = stored
             /\ IF task.kind = "details"
                THEN /\ tasks' = Take(tasks, task)
                     /\ UNCHANGED comparisonMode
                ELSE IF task.idx = 1 /\ ~stored[cacheKey(task.body, task.feats[2].name)].present
                THEN /\ tasks' = Put(Take(tasks, task),
                                     Task("comparison", task.feats, task.body, 2))
                     /\ UNCHANGED comparisonMode
                ELSE Render(task)

\* showFeatureDetails(feature), up to its first await
showFeatureDetails(feature) ==
    /\ feature \in FeatureList(currentPlanet)
    /\ IF comparisonMode
       THEN /\ comparisonFeatures' = addToComparison(feature)
            /\ UNCHANGED tasks
       ELSE /\ UNCHANGED comparisonFeatures
            /\ IF isNotableFeature(feature) /\ ~cacheHit(cacheKey(currentPlanet, feature.name))
               THEN /\ BagCardinality(tasks) < MaxTasks
                    /\ tasks' = Put(tasks, Task("details", << feature >>, currentPlanet, 1))
               ELSE UNCHANGED tasks
    /\ UNCHANGED << currentPlanet, timelineCache, comparisonMode, panelVisible, comparisonEls >>
    /\ UNCHANGED << call, load, geo >>

\* showComparison(), up to its first await (the Compare Now button)
showComparison ==
    /\ panelVisible
    /\ Len(comparisonFeatures) = 2
    /\ LET key1 == cacheKey(currentPlanet, comparisonFeatures[1].name)
           key2 == cacheKey(currentPlanet, comparisonFeatures[2].name)
       IN  /\ panelVisible' = FALSE
           /\ comparisonEls' = TRUE
           /\ IF cacheHit(key1) /\ cacheHit(key2)
              THEN /\ comparisonMode' = FALSE
                   /\ UNCHANGED tasks
              ELSE /\ BagCardinality(tasks) < MaxTasks
                   /\ tasks' = Put(tasks, Task("comparison", comparisonFeatures, currentPlanet,
                                               IF cacheHit(key1) THEN 2 ELSE 1))
                   /\ UNCHANGED comparisonMode
    /\ UNCHANGED << currentPlanet, timelineCache, comparisonFeatures >>
    /\ UNCHANGED << call, load, geo >>

\* the requests of a suspended call are answered and the call runs to its
\* next await or to its end
WikipediaResponse(task, wikiData) ==
    /\ task \in InFlight
    /\ wikiData \in Returned(CurFeature(task).name)
    /\ Finish(task, wikiData)
    /\ UNCHANGED << currentPlanet, comparisonFeatures, panelVisible, comparisonEls >>
    /\ UNCHANGED << call, load, geo >>

Next ==
    \/ \E planetKey \in Bodies : loadPlanet(planetKey)
    \/ clearTileSelection
    \/ toggleComparisonMode
    \/ \E f \in AllFeatures : showFeatureDetails(f)
    \/ showComparison
    \/ \E task \in InFlight : \E wikiData \in Returned(CurFeature(task).name) :
          WikipediaResponse(task, wikiData)

Spec == Init /\ [][Next]_vars

\* ------------------------------------------------------- claims under Spec
\* the number of suspended calls whose knowledge-base request sequence is
\* for cache key `key`
RequestsInFlight(bag, key) ==
    BagCardinality([t \in { u \in BagToSet(bag) : CurKey(u) = key } |-> bag[t]])

\* C1 (single-flight): at any time at most one knowledge-base request
\* sequence is in flight for a cache key (body, featureName), however many
\* showFeatureDetails / showComparison calls asked for that key before the
\* first of them completed.
C1_SingleFlight == \A key \in CacheKeys : RequestsInFlight(tasks, key) <= 1

\* C2 (cascade order): no knowledge-base request sequence is ever in flight
\* for a feature that has a structured timeline on the body it is resolved
\* for.
C2_StructuredNeverFetches ==
    \A task \in InFlight : Len(TIMELINE_DATA(task.body, CurFeature(task).name)) = 0

\* C3 (no re-resolution): in every step taken while the cache holds a
\* timeline for a key, no new knowledge-base request sequence is started
\* for that key: a request for a stored key is answered from the cache.
C3_NoReResolution ==
    [][\A key \in CacheKeys :
          timelineCache[key].present =>
              RequestsInFlight(tasks', key) <= RequestsInFlight(tasks, key)]_vars

\* a stored timeline is about to be asked for again: the details of a
\* notable feature of the current body are opened while its key is cached
\* and nothing is in flight
C3_Witness ==
    /\ ~comparisonMode
    /\ tasks = EmptyBag
    /\ \E f \in FeatureList(currentPlanet) :
          isNotableFeature(f) /\ cacheHit(cacheKey(currentPlanet, f.name))

\* C4 (cache eviction): the step that enters comparison mode leaves the
\* cache empty, and a step that removes an entry from the cache is a step
\* that enters comparison mode.
C4_EvictionOnlyOnEnteringComparison ==
    [][/\ (~comparisonMode /\ comparisonMode') => timelineCache' = clearedCache
       /\ (\E key \in CacheKeys : timelineCache[key].present /\ ~timelineCache'[key].present)
              => (~comparisonMode /\ comparisonMode')]_vars

\* a comparison that had its first timeline in the cache is still waiting
\* for its second one, and comparison mode has been entered again since:
\* the cache is empty
C4_Witness ==
    /\ comparisonMode
    /\ timelineCache = clearedCache
    /\ \E task \in InFlight : task.kind = "comparison" /\ task.idx = 2

\* the timelines generateTimeline can produce for the feature name under
\* the structured overrides and the estimation rules of the body
TimelinesOf(body, name) ==
    { generateTimeline(f, w, body).events :
        f \in { g \in AllFeatures : g.name = name }, w \in Returned(name) }

\* C26 (cache entries match their key's body): every timeline stored under
\* the key (body, featureName) was computed with the structured overrides
\* and the estimation rules of that body, also when loadPlanet changed the
\* body while the knowledge-base fetch of the resolution was in flight.
C26_CacheMatchesBody ==
    \A key \in CacheKeys :
        timelineCache[key].present
            => timelineCache[key].timeline \in TimelinesOf(key[1], key[2])

\* C27 (cache entries are write-once between clears): a value stored under
\* a key does not change while the key stays in the cache, in every
\* interleaving of overlapping showFeatureDetails and showComparison
\* resolutions for that key.
C27_WriteOnce ==
    [][\A key \in CacheKeys :
          (timelineCache[key].present /\ timelineCache'[key].present)
              => timelineCache'[key] = timelineCache[key]]_vars

\* ------------------------------- SpecResolve: one resolution at a time
\* The user opens one feature after the other, each time waiting for the
\* timeline; the cache is left out (every resolution is the first for its
\* key).  call follows showFeatureDetails of app.js through the four
\* requests of fetchWikipediaTimeline, or is a finished generateTimeline
\* call of app/page.tsx.  The third body stands for every body that is
\* neither MOON nor MARS.
\* diameters (km) on both sides of every threshold of estimateCraterAge;
\* Null is a curated crater, which has no diameter
CraterDiameters == {Null, 3, 5, 6, 20, 21, 50, 51, 100, 101, 120}
ResolveBodies == {"MOON", "MARS", "EUROPA"}
ResolveFeatures ==
    { Props("Olympus Mons", "Mons", 610, "kmz"),
      Props("Gale", "Crater", 154, "kmz"),
      Props("Beer", "Crater", 9, "kmz"),
      Props("Tycho", "Crater", 85, "famous"),
      Props("Mare Imbrium", "Mare", 1146, "famous"),
      Props("Ma'adim Vallis", "Vallis", 825, "kmz"),
      Props("Utopia Planitia", "Planitia", 3300, "kmz"),
      Props("Prometheus", "Eruptive center", Null, "famous") }
    \cup { Props("Endeavour", "Crater", d, "famous") : d \in CraterDiameters }

InitResolve ==
    /\ currentPlanet = "MOON"
    /\ timelineCache = [k \in CacheKeys |-> NoEntry]
    /\ comparisonMode = FALSE
    /\ comparisonFeatures = << >>
    /\ panelVisible = FALSE
    /\ tasks = EmptyBag
    /\ comparisonEls = FALSE
    /\ call = IdleCall
    /\ load = NoLoad
    /\ geo = NoGeo

ResolveFrame ==
    UNCHANGED << timelineCache, comparisonMode, comparisonFeatures, panelVisible, tasks,
                 comparisonEls, load, geo >>

\* the planet selector, used while no resolution is in flight
selectPlanet(planetKey) ==
    /\ call.pc \in {"idle", "done"}
    /\ planetKey # currentPlanet
    /\ currentPlanet' = planetKey
    /\ call' = IdleCall
    /\ ResolveFrame

\* showFeatureDetails(feature) of a notable feature, comparison mode off,
\* nothing cached: up to the first request of fetchWikipediaTimeline
startResolution(feature) ==
    /\ call.pc \in {"idle", "done"}
    /\ isNotableFeature(feature)
    /\ call' = [IdleCall EXCEPT !.impl = "app", !.pc = "search", !.feature = feature]
    /\ UNCHANGED currentPlanet
    /\ ResolveFrame

\* fetchWikipediaTimeline has returned: `timeline = await generateTimeline(
\* feature, wikiData)`, a TypeError in it rejecting showFeatureDetails
finished(responses) ==
    LET wikiData == fetchWikipediaTimeline(call.feature.name, responses)
        r == generateTimeline(call.feature, wikiData, currentPlanet)
    IN  [call EXCEPT !.pc = "done", !.responses = responses, !.ok = r.ok,
                     !.timeline = r.events]

\* the opensearch request is answered (app.js 643-650)
SearchResponse(out) ==
    /\ call.pc = "search"
    /\ LET responses == [call.responses EXCEPT !.search = out]
       IN  call' = IF out = "ok"
                   THEN [call EXCEPT !.pc = "revisions", !.responses = responses]
                   ELSE finished(responses)
    /\ UNCHANGED currentPlanet
    /\ ResolveFrame

\* the revisions (wikitext) request is answered (app.js 653-659)
RevisionsResponse(out) ==
    /\ call.pc = "revisions"
    /\ LET responses == [call.responses EXCEPT !.revisions = out]
       IN  call' = IF out = "ok"
                   THEN [call EXCEPT !.pc = "fullText", !.responses = responses]
                   ELSE finished(responses)
    /\ UNCHANGED currentPlanet
    /\ ResolveFrame

\* the full-text extract request is answered (app.js 662-668)
FullTextResponse(out) ==
    /\ call.pc = "fullText"
    /\ LET responses == [call.responses EXCEPT !.fullText = out]
       IN  call' = IF out = "fail"
                   THEN finished(responses)
                   ELSE [call EXCEPT !.pc = "intro", !.responses = responses]
    /\ UNCHANGED currentPlanet
    /\ ResolveFrame

\* the intro extract request is answered (app.js 671-688)
IntroResponse(out) ==
    /\ call.pc = "intro"
    /\ call' = finished([call.responses EXCEPT !.intro = out])
    /\ UNCHANGED currentPlanet
    /\ ResolveFrame

\* app/page.tsx: generateTimeline(feature) for the selected planet
pageGenerateTimeline(feature) ==
    /\ call.pc \in {"idle", "done"}
    /\ call' = IF currentPlanet = NoStr
               THEN \* selectedPlanet.toUpperCase() on no planet: TypeError
                    [IdleCall EXCEPT !.impl = "page", !.pc = "done", !.feature = feature,
                                     !.ok = FALSE]
               ELSE [IdleCall EXCEPT
                       !.impl = "page", !.pc = "done", !.feature = feature,
                       !.timeline = generateTimeline_page(
                                        [name |-> feature.name, type |-> feature.featureType,
                                         diameter |-> feature.diameter], currentPlanet)]
    /\ UNCHANGED currentPlanet
    /\ ResolveFrame

NextResolve ==
    \/ \E planetKey \in ResolveBodies : selectPlanet(planetKey)
    \/ \E feature \in ResolveFeatures : startResolution(feature)
    \/ \E out \in {"fail", "empty", "ok"} : SearchResponse(out)
    \/ \E out \in {"fail", "ok"} : RevisionsResponse(out)
    \/ \E out \in {"fail", "noextract", "ok"} : FullTextResponse(out)
    \/ \E out \in {"fail", "noextract", "ok"} : IntroResponse(out)
    \/ \E feature \in ResolveFeatures : pageGenerateTimeline(feature)

SpecResolve == InitResolve /\ [][NextResolve]_vars

\* ------------------------------------------------ claims under SpecResolve
HasStructured(planetName, featureName) == Len(TIMELINE_DATA(planetName, featureName)) > 0

\* one of the requests made was not answered with what the code expects
KnowledgeBaseFailed(responses) ==
    \/ responses.search \in {"fail", "empty"}
    \/ responses.revisions = "fail"
    \/ responses.fullText \in {"fail", "noextract"}
    \/ responses.intro \in {"fail", "noextract"}

\* C5 (knowledge-base failure is a cascade miss): a finished resolution of
\* app.js in which a knowledge-base request failed (rejected, unreadable,
\* empty search, page without extract), for a feature without structured
\* timeline, raised no exception and returned the estimation timeline.
C5_FailureIsCascadeMiss ==
    (/\ call.pc = "done"
     /\ call.impl = "app"
     /\ KnowledgeBaseFailed(call.responses)
     /\ ~HasStructured(currentPlanet, call.feature.name))
    => (call.ok /\ call.timeline = estimatedEvents(call.feature, currentPlanet))

\* the resolution had no knowledge-base data to work with
NoKnowledgeBaseData(c) ==
    \/ c.impl = "page"
    \/ LET wikiData == fetchWikipediaTimeline(c.feature.name, c.responses)
       IN  ~wikiData.found \/ ~wikiData.fullText.truthy

\* the phases that open an estimated timeline with the feature's origin
FormationPhases ==
    {"Formation", "Impact Formation", "Volcanic Province Formation", "Tectonic Initiation",
     "Basin Impact", "Surface Formation"}

\* the feature passes the notability test its resolver applies
\* (page.tsx hands isNotableFeature the FamousFeature as `properties`)
PassesNotableTest(c) ==
    IF c.impl = "page"
    THEN isNotableFeature([source |-> NoStr, featureType |-> NoStr,
                           diameter |-> c.feature.diameter])
    ELSE isNotableFeature(c.feature)

\* C6 (tier 3 always succeeds): a finished resolution of a notable feature
\* without structured timeline and without knowledge-base data returned a
\* non-empty timeline whose first event is a formation event and whose
\* last event is Current State with years = 0, for every feature type,
\* body and diameter.
C6_EstimationAlwaysSucceeds ==
    (/\ call.pc = "done"
     /\ PassesNotableTest(call)
     /\ NoKnowledgeBaseData(call)
     /\ ~HasStructured(currentPlanet, call.feature.name))
    => (/\ call.ok
        /\ Len(call.timeline) > 0
        /\ call.timeline[1].phase \in FormationPhases
        /\ call.timeline[Len(call.timeline)].phase = "Current State"
        /\ call.timeline[Len(call.timeline)].years = 0)

\* C16 (years are a non-negative number): every event of every timeline a
\* resolution returned, from any tier and for any infobox or text content,
\* has a numeric years value >= 0, never null or undefined.
C16_YearsNonNegative ==
    (call.pc = "done" /\ call.ok) =>
        \A i \in 1..Len(call.timeline) :
            /\ call.timeline[i].years # Null
            /\ call.timeline[i].years # NaN
            /\ call.timeline[i].years >= 0

\* the resolution went through the knowledge-base tier with the whole page
UsedKnowledgeBase(c) ==
    /\ c.pc = "done" /\ c.ok /\ c.impl = "app"
    /\ ~HasStructured(currentPlanet, c.feature.name)
    /\ ~KnowledgeBaseFailed(c.responses)

\* the eruption / activity phrases that matched in the page of the feature
Candidates22(c) ==
    SelectSeq(WikiPage(c.feature.name).fullText.eruptions, LAMBDA m : m # NoMatch)

\* the events of the timeline with the phase
EventsOf(timeline, phase) == { i \in 1..Len(timeline) : timeline[i].phase = phase }

\* C22 (most recent activity): without an infobox last-eruption value and
\* with several eruption / activity phrases matching, the Last Major
\* Activity event is the candidate with the smallest age in years (number
\* times its unit), also when the candidates use different units.
C22_MostRecentActivity ==
    (/\ UsedKnowledgeBase(call)
     /\ IsEmptyStr(WikiPage(call.feature.name).infobox.lastEruption)
     /\ Len(Candidates22(call)) >= 2)
    => LET ages == { parseTimeframeToYears(MatchTimeframe(Candidates22(call)[i])) :
                       i \in 1..Len(Candidates22(call)) }
       IN  /\ Cardinality(EventsOf(call.timeline, "Last Major Activity")) = 1
           /\ \A i \in EventsOf(call.timeline, "Last Major Activity") :
                 \A a \in ages : call.timeline[i].years <= a

\* C23 (midpoint activity estimate): in the knowledge-base tier, without an
\* infobox last-eruption value and without a dated eruption phrase, a text
\* that mentions volcanism yields an activity event whose years is half of
\* the years of the Formation event of the same timeline, for every feature
\* type and body.
C23_MidpointEstimate ==
    (/\ UsedKnowledgeBase(call)
     /\ IsEmptyStr(WikiPage(call.feature.name).infobox.lastEruption)
     /\ Len(Candidates22(call)) = 0
     /\ WikiPage(call.feature.name).fullText.volcanism)
    => \E i \in EventsOf(call.timeline, "Major Activity") :
          \E j \in EventsOf(call.timeline, "Formation") :
             2 * call.timeline[i].years = call.timeline[j].years

\* ------------------------------- SpecContract: calls outside the contract
\* The resolutions of SpecResolve, started also before a body is selected
\* (currentPlanet is null until init() has run loadPlanet) and for a feature
\* object that has no name.
NamelessFeatures == { Props(NoStr, "Crater", 85, "kmz"), Props(NoStr, "Mons", Null, "famous") }

InitContract ==
    /\ currentPlanet = NoStr
    /\ timelineCache = [k \in CacheKeys |-> NoEntry]
    /\ comparisonMode = FALSE
    /\ comparisonFeatures = << >>
    /\ panelVisible = FALSE
    /\ tasks = EmptyBag
    /\ comparisonEls = FALSE
    /\ call = IdleCall
    /\ load = NoLoad
    /\ geo = NoGeo

NextContract ==
    \/ NextResolve
    \/ \E feature \in NamelessFeatures : startResolution(feature)
    \/ \E feature \in NamelessFeatures : pageGenerateTimeline(feature)

SpecContract == InitContract /\ [][NextContract]_vars

ContractViolated(c) == currentPlanet = NoStr \/ c.feature.name = NoStr

\* C17 (contract violations fail fast): a resolution started while no body
\* is selected, or for a feature without a name, is finished at once with an
\* error outcome and has issued no knowledge-base request.
C17_FailFast ==
    (call.pc # "idle" /\ ContractViolated(call)) =>
        (call.pc = "done" /\ ~call.ok /\ call.responses = NoResponses)

\* the crater age of the diameter buckets, in units of 100 years
\* (4,000,000,000 years = 4 * Billion)
CraterBucket(diameter) ==
    IF diameter > 100 THEN 4 * Billion
    ELSE IF diameter > 50 THEN 37 * (Billion \div 10)
    ELSE IF diameter > 20 THEN 32 * (Billion \div 10)
    ELSE IF diameter > 5 THEN 15 * (Billion \div 10)
    ELSE 5 * (Billion \div 10)

IsCraterCase(c) ==
    /\ c.pc = "done"
    /\ TypeIncludes(c.feature.featureType, "Crater")
    /\ c.feature.diameter # Null
    /\ c.feature.diameter > 0
    /\ PassesNotableTest(c)
    /\ NoKnowledgeBaseData(c)
    /\ ~HasStructured(currentPlanet, c.feature.name)

MaxPlacemarks == 2

FamousFeature(name, type, diameter, lon, lat) ==
    [name |-> name, type |-> type, diameter |-> diameter, lon |-> lon, lat |-> lat]
KMZFeature(name, featureType, diameter, source, lon, lat) ==
    [name |-> name, featureType |-> featureType, diameter |-> diameter, source |-> source,
     lon |-> lon, lat |-> lat]

\* FAMOUS_FEATURES[planet]: the first Moon entries in file order, the empty
\* list, and a list with a name that differs from an archive name by case
CuratedLists ==
    { << >>,
      << FamousFeature("Aristarchus", "Crater", Null, 0 - 47, 24),
         FamousFeature("Kepler", "Crater", Null, 0 - 38, 8),
         FamousFeature("Copernicus", "Crater", Null, 0 - 20, 10) >>,
      << FamousFeature("Copernicus", "Crater", Null, 0 - 20, 10),
         FamousFeature("kepler", "Crater", Null, 0 - 38, 8) >> }

\* A Placemark element: whether it has a name / coordinates child, the
\* trimmed name, the pieces `coordsText.split(/[\s,]+/)` yields (an empty
\* piece where the text starts with a separator), and the SimpleData
\* values of its ExtendedData by attribute name (NoStr when absent).
Placemark(hasName, name, hasCoords, split, data) ==
    [hasName |-> hasName, name |-> name, hasCoords |-> hasCoords, split |-> split, data |-> data]
SimpleData(feature_type, type, diameter) ==
    [feature_type |-> feature_type, type |-> type, diameter |-> diameter]
NoData == SimpleData(NoStr, NoStr, NoStr)

PlacemarkKinds ==
    { Placemark(TRUE, "Kepler", TRUE, << "-38", "8", "0" >>, SimpleData("Crater", "Crater", "31")),
      Placemark(TRUE, "Aristarchus", TRUE, << "", "-47", "24" >>, SimpleData(NoStr, NoStr, "big")),
      Placemark(FALSE, NoStr, TRUE, << "10", "20" >>, NoData),
      Placemark(TRUE, "Copernicus", FALSE, << >>, NoData),
      Placemark(TRUE, "Tycho", TRUE, << "", "12" >>, NoData),
      Placemark(TRUE, "Plato", TRUE, << "not", "a", "number" >>, NoData),
      Placemark(TRUE, "Pytheas", TRUE, << "20", "north" >>, NoData),
      Placemark(TRUE, "", TRUE, << "10", "20" >>, NoData),
      Placemark(TRUE, "Plato", TRUE, << "Infinity", "12" >>, NoData) }

\* parseFloat on the strings that occur
parseFloat(s) ==
    CASE s = "-38" -> 0 - 38
      [] s = "8" -> 8
      [] s = "0" -> 0
      [] s = "-47" -> 0 - 47
      [] s = "24" -> 24
      [] s = "10" -> 10
      [] s = "20" -> 20
      [] s = "12" -> 12
      [] s = "31" -> 31
      [] s = "Infinity" -> Infinity
      [] OTHER -> NaN

\* variant: the coordinates are not tested for NaN
parsePlacemark_NaNKept(placemark) ==
    LET coords == SelectSeq(placemark.split, LAMBDA c : c # "")
    IN  IF ~placemark.hasName \/ ~placemark.hasCoords THEN [skipped |-> TRUE]
        ELSE IF Len(coords) < 2 THEN [skipped |-> TRUE]
        ELSE [skipped |-> FALSE,
              feature |-> KMZFeature(placemark.name, "Unknown", Null, "kmz",
                                     parseFloat(coords[1]), parseFloat(coords[2]))]

\* one round of the loop over the placemarks in lib/kmz-loader.ts parseKML
parsePlacemark(placemark) ==
    LET coords == SelectSeq(placemark.split, LAMBDA c : c # "")
        lon == parseFloat(coords[1])
        lat == parseFloat(coords[2])
        data == placemark.data
        diameterValue == parseFloat(data.diameter)
    IN  IF ~placemark.hasName \/ ~placemark.hasCoords THEN [skipped |-> TRUE]
        ELSE IF Len(coords) < 2 THEN [skipped |-> TRUE]
        ELSE IF lon = NaN \/ lat = NaN THEN [skipped |-> TRUE]
        ELSE [skipped |-> FALSE,
              feature |-> KMZFeature(placemark.name,
                                     IF data.feature_type # NoStr THEN data.feature_type
                                     ELSE "Unknown",
                                     IF data.diameter # NoStr /\ diameterValue # NaN
                                     THEN diameterValue ELSE Null,
                                     "kmz", lon, lat)]

\* one round of the loop over the placemarks in app.js parseKML
parsePlacemark_app(placemark) ==
    LET coords == SelectSeq(placemark.split, LAMBDA c : c # "")
        lon == parseFloat(coords[1])
        lat == parseFloat(coords[2])
        data == placemark.data
    IN  IF ~placemark.hasName \/ ~placemark.hasCoords THEN [skipped |-> TRUE]
        ELSE IF Len(coords) < 2 THEN [skipped |-> TRUE]
        ELSE IF lon = NaN \/ lat = NaN THEN [skipped |-> TRUE]
        ELSE [skipped |-> FALSE,
              feature |-> KMZFeature(placemark.name,
                                     IF data.type # NoStr THEN data.type ELSE "Unknown",
                                     IF data.diameter # NoStr THEN parseFloat(data.diameter)
                                     ELSE Null,
                                     "kmz", lon, lat)]

Parsed(parsedFeatures, skippedCount) ==
    [parsedFeatures |-> parsedFeatures, skippedCount |-> skippedCount]

RECURSIVE placemarkLoop(_, _, _)
\* `for (let placemark of placemarks)`, from the state reached so far
placemarkLoop(impl, placemarks, sofar) ==
    IF placemarks = << >> THEN sofar
    ELSE LET one == IF impl = "ts" THEN parsePlacemark(Head(placemarks))
                    ELSE parsePlacemark_app(Head(placemarks))
         IN  placemarkLoop(impl, Tail(placemarks),
                           IF one.skipped
                           THEN Parsed(sofar.parsedFeatures, sofar.skippedCount + 1)
                           ELSE Parsed(Append(sofar.parsedFeatures, one.feature),
                                       sofar.skippedCount))

\* parseKML(kmlText): the features it returns and the skip count it logs
parseKML(impl, kml) ==
    IF kml.parserError THEN Parsed(<< >>, 0)
    ELSE placemarkLoop(impl, kml.placemarks, Parsed(<< >>, 0))

\* lib/kmz-loader.ts convertFamousFeatures
convertFamousFeatures(famousFeatures) ==
    [i \in 1..Len(famousFeatures) |->
        KMZFeature(famousFeatures[i].name, famousFeatures[i].type, famousFeatures[i].diameter,
                   "famous", famousFeatures[i].lon, famousFeatures[i].lat)]

\* app.js loadFeatures: the conversion of FAMOUS_FEATURES[planetName]
convertFamous_app(famousFeatures) ==
    [i \in 1..Len(famousFeatures) |->
        KMZFeature(famousFeatures[i].name, famousFeatures[i].type, Null,
                   "famous", famousFeatures[i].lon, famousFeatures[i].lat)]

\* where a name stands in the collation order localeCompare uses
collationRank(name) ==
    CASE name = "" -> 0
      [] name = "Aristarchus" -> 1
      [] name = "Copernicus" -> 2
      [] name = "kepler" -> 3
      [] name = "Kepler" -> 4
      [] name = "Plato" -> 5
      [] name = "Pytheas" -> 6
      [] name = "Tycho" -> 7
      [] OTHER -> 8

localeCompare(nameA, nameB) ==
    IF collationRank(nameA) < collationRank(nameB) THEN 0 - 1
    ELSE IF collationRank(nameA) > collationRank(nameB) THEN 1
    ELSE 0

RECURSIVE insertSorted(_, _)
insertSorted(sorted, f) ==
    IF sorted = << >> THEN << f >>
    ELSE IF localeCompare(Head(sorted).name, f.name) <= 0
    THEN << Head(sorted) >> \o insertSorted(Tail(sorted), f)
    ELSE << f >> \o sorted

RECURSIVE sortedFrom(_, _)
sortedFrom(sorted, rest) ==
    IF rest = << >> THEN sorted ELSE sortedFrom(insertSorted(sorted, Head(rest)), Tail(rest))

\* `features.sort((a, b) => nameA.localeCompare(nameB))`: Array.prototype.sort
\* is stable
sortByName(fs) == sortedFrom(<< >>, fs)

\* variant: every curated feature is kept
uniqueFamous_all(kmzFeatures, convertedFamous) == convertedFamous

\* `convertedFamous.filter(f => !kmzNames.has(f.properties.name))`
uniqueFamous(kmzFeatures, convertedFamous) ==
    SelectSeq(convertedFamous,
              LAMBDA f : \A i \in 1..Len(kmzFeatures) : kmzFeatures[i].name # f.name)

LoadResult(fs, kmzCount, famousCount, total) ==
    [features |-> fs, kmzCount |-> kmzCount, famousCount |-> famousCount, total |-> total]

\* variant: a failed load yields no features
famousOnly_nothing(convertedFamous) == LoadResult(<< >>, 0, 0, 0)

\* loadPlanetFeatures: what it returns without a URL and from its catch
famousOnly(convertedFamous) ==
    LoadResult(convertedFamous, 0, Len(convertedFamous), Len(convertedFamous))

\* variant: every curated feature is counted, kept or not
mergedResult_countsAllFamous(kmzFeatures, convertedFamous) ==
    LET unique == uniqueFamous(kmzFeatures, convertedFamous)
        allFeatures == sortByName(kmzFeatures \o unique)
    IN  LoadResult(allFeatures, Len(kmzFeatures), Len(convertedFamous), Len(allFeatures))

\* loadPlanetFeatures: merge, sort and result (lib/kmz-loader.ts 214-238)
mergedResult(kmzFeatures, convertedFamous) ==
    LET unique == uniqueFamous(kmzFeatures, convertedFamous)
        allFeatures == sortByName(kmzFeatures \o unique)
    IN  LoadResult(allFeatures, Len(kmzFeatures), Len(unique), Len(allFeatures))

\* loadFeatures keeps no counts: `features` after the call
FeaturesOnly(fs) == LoadResult(fs, Null, Null, Null)

KmlDocuments ==
    { [parserError |-> TRUE, placemarks |-> << >>] }
    \cup { [parserError |-> FALSE, placemarks |-> s] :
             s \in UNION { [1..n -> PlacemarkKinds] : n \in 0..MaxPlacemarks } }

NoParsed == Parsed(<< >>, Null)
NoLoadResult == LoadResult(<< >>, Null, Null, Null)

InitLoad ==
    /\ currentPlanet = "MOON"
    /\ timelineCache = [k \in CacheKeys |-> NoEntry]
    /\ comparisonMode = FALSE
    /\ comparisonFeatures = << >>
    /\ panelVisible = FALSE
    /\ tasks = EmptyBag
    /\ comparisonEls = FALSE
    /\ call = IdleCall
    /\ \E impl \in {"ts", "js"}, hasUrl \in BOOLEAN, famous \in CuratedLists,
          kml \in KmlDocuments :
          load = [pc |-> "start", impl |-> impl, hasUrl |-> hasUrl, famous |-> famous,
                  kml |-> kml, cause |-> NoStr, parsed |-> NoParsed,
                  result |-> NoLoadResult]
    /\ geo = NoGeo

LoadFrame == UNCHANGED appVars /\ UNCHANGED << call, geo >>

converted(l) ==
    IF l.impl = "ts" THEN convertFamousFeatures(l.famous) ELSE convertFamous_app(l.famous)

\* the archive could not be used.  loadPlanetFeatures returns from its
\* catch; loadFeatures assigns `features = famousFeatures` in its catch and
\* goes on to the sort below the try statement
catch(cause) ==
    load' = [load EXCEPT
               !.pc = "done", !.cause = cause,
               !.result = IF load.impl = "ts" THEN famousOnly(converted(load))
                          ELSE FeaturesOnly(sortByName(converted(load)))]

\* the call up to `await fetch(kmzUrl)`, or to its return when the body
\* has no kmz_url
loadStart ==
    /\ load.pc = "start"
    /\ load' = IF ~load.hasUrl
               THEN [load EXCEPT
                       !.pc = "done", !.cause = "nourl",
                       !.result = IF load.impl = "ts" THEN famousOnly(converted(load))
                                  ELSE FeaturesOnly(converted(load))]
               ELSE [load EXCEPT !.pc = "fetch"]
    /\ LoadFrame

\* fetch(kmzUrl) settles: rejected, a non-success status, or ok
KmzResponse(out) ==
    /\ load.pc = "fetch"
    /\ IF out = "ok" THEN load' = [load EXCEPT !.pc = "blob"] ELSE catch(out)
    /\ LoadFrame

\* response.blob() settles
BlobRead(out) ==
    /\ load.pc = "blob"
    /\ IF out = "ok" THEN load' = [load EXCEPT !.pc = "unzip"] ELSE catch("blob")
    /\ LoadFrame

\* JSZip.loadAsync(blob) settles: not a zip container, a container without
\* .kml entry, or a container with one
ZipLoaded(out) ==
    /\ load.pc = "unzip"
    /\ IF out = "ok" THEN load' = [load EXCEPT !.pc = "text"] ELSE catch(out)
    /\ LoadFrame

\* kmlFile.async('text') settles; then parseKML, the merge and the sort
KmlTextRead(out) ==
    /\ load.pc = "text"
    /\ IF out = "ok"
       THEN LET parsed == parseKML(load.impl, load.kml)
                kmzFeatures == parsed.parsedFeatures
            IN  load' = [load EXCEPT
                           !.pc = "done", !.cause = "merged", !.parsed = parsed,
                           !.result =
                               IF load.impl = "ts"
                               THEN mergedResult(kmzFeatures, converted(load))
                               ELSE FeaturesOnly(sortByName(
                                        kmzFeatures \o uniqueFamous(kmzFeatures,
                                                                    converted(load))))]
       ELSE catch("text")
    /\ LoadFrame

NextLoad ==
    \/ loadStart
    \/ \E out \in {"reject", "status", "ok"} : KmzResponse(out)
    \/ \E out \in {"reject", "ok"} : BlobRead(out)
    \/ \E out \in {"unzip", "nokml", "ok"} : ZipLoaded(out)
    \/ \E out \in {"reject", "ok"} : KmlTextRead(out)

SpecLoad == InitLoad /\ [][NextLoad]_vars

\* --------------------------------------------------- claims under SpecLoad
\* why the archive could not be used
Unavailable == {"nourl", "reject", "status", "blob", "unzip", "nokml", "text"}

\* C7 (archive unavailable): when the archive cannot be used (no URL, fetch
\* rejected, non-success status, unzip failure, no .kml entry),
\* loadPlanetFeatures returns exactly the converted curated features with
\* kmzCount = 0 and famousCount = total = the number of curated features.
C7_ArchiveUnavailable ==
    (load.pc = "done" /\ load.impl = "ts" /\ load.cause \in Unavailable)
    => load.result =
           [features |-> [i \in 1..Len(load.famous) |->
                             [name |-> load.famous[i].name,
                              featureType |-> load.famous[i].type,
                              diameter |-> load.famous[i].diameter,
                              source |-> "famous",
                              lon |-> load.famous[i].lon, lat |-> load.famous[i].lat]],
            kmzCount |-> 0, famousCount |-> Len(load.famous), total |-> Len(load.famous)]

\* the fetch of the archive failed and three curated features came back
C7_Witness ==
    /\ load.pc = "done" /\ load.impl = "ts" /\ load.cause = "status"
    /\ Len(load.famous) = 3
    /\ load.result.total = 3

\* how many features of fs have the name and the source
CountOf(fs, name, source) ==
    Cardinality({ i \in 1..Len(fs) : fs[i].name = name /\ fs[i].source = source })
NamesOf(fs) == { fs[i].name : i \in 1..Len(fs) }

\* C8 (reconciliation priority): the reconciled list holds every archive
\* feature, and a curated feature exactly when no archive feature has its
\* (case-sensitive) name; a name found in both is in the list only with
\* the archive as source.
C8_ArchiveHasPriority ==
    (load.pc = "done" /\ load.cause = "merged")
    => LET kmzFeatures == load.parsed.parsedFeatures
           out == load.result.features
       IN  /\ \A name \in NamesOf(kmzFeatures) :
                 /\ CountOf(out, name, "kmz") = CountOf(kmzFeatures, name, "kmz")
                 /\ CountOf(out, name, "famous") = 0
           /\ \A i \in 1..Len(load.famous) :
                 load.famous[i].name \notin NamesOf(kmzFeatures)
                     => CountOf(out, load.famous[i].name, "famous") = 1
           /\ \A j \in 1..Len(out) :
                 \/ \E i \in 1..Len(kmzFeatures) : out[j] = kmzFeatures[i]
                 \/ \E i \in 1..Len(load.famous) :
                       out[j].source = "famous" /\ out[j].name = load.famous[i].name

\* the archive and the curated list both have Kepler, the curated list has
\* Copernicus alone
C8_Witness ==
    /\ load.pc = "done" /\ load.cause = "merged"
    /\ "Kepler" \in NamesOf(load.parsed.parsedFeatures)
    /\ \E i \in 1..Len(load.famous) : load.famous[i].name = "Kepler"
    /\ CountOf(load.result.features, "Copernicus", "famous") = 1

\* C9 (sorted output on every path): the feature list a finished load
\* produced is in non-decreasing name order, whether the archive was
\* merged, no URL was configured, or the archive failed.
C9_SortedOnEveryPath ==
    load.pc = "done"
    => \A i, j \in 1..Len(load.result.features) :
          i < j => collationRank(load.result.features[i].name)
                       <= collationRank(load.result.features[j].name)

\* the strings that parse as a number (isNaN is false of the result)
NumericStrings == {"-38", "8", "0", "-47", "24", "10", "20", "12", "31", "Infinity"}

\* a placemark with name, coordinates, two coordinate tokens, both numeric
WellFormed(placemark) ==
    /\ placemark.hasName
    /\ placemark.hasCoords
    /\ LET tokens == SelectSeq(placemark.split, LAMBDA c : c # "")
       IN  Len(tokens) >= 2 /\ tokens[1] \in NumericStrings /\ tokens[2] \in NumericStrings

\* C10 (malformed records are skipped, not fatal): parseKML goes through
\* every placemark; each malformed one adds one to the skip count, each
\* other one yields one feature, in document order, and features plus
\* skips are as many as the placemarks.
C10_MalformedSkipped ==
    (load.pc = "done" /\ load.cause = "merged" /\ ~load.kml.parserError)
    => LET placemarks == load.kml.placemarks
           good == SelectSeq(placemarks, WellFormed)
           parsedFeatures == load.parsed.parsedFeatures
       IN  /\ Len(parsedFeatures) + load.parsed.skippedCount = Len(placemarks)
           /\ load.parsed.skippedCount = Len(placemarks) - Len(good)
           /\ Len(parsedFeatures) = Len(good)
           /\ \A i \in 1..Len(good) :
                 /\ parsedFeatures[i].name = good[i].name
                 /\ parsedFeatures[i].lon # NaN
                 /\ parsedFeatures[i].lat # NaN

\* a document of one malformed and one well-formed placemark was parsed
C10_Witness ==
    /\ load.pc = "done" /\ load.cause = "merged"
    /\ Len(load.kml.placemarks) = 2
    /\ load.parsed.skippedCount = 1
    /\ Len(load.parsed.parsedFeatures) = 1

\* C21 (emitted features are well-formed): every feature parseKML emits has
\* a non-empty name and a finite longitude and latitude; a placemark with an
\* empty name element or a coordinate that parses to a non-finite value
\* yields no feature.
C21_EmittedWellFormed ==
    (load.pc = "done" /\ load.cause = "merged")
    => \A i \in 1..Len(load.parsed.parsedFeatures) :
          LET f == load.parsed.parsedFeatures[i]
          IN  /\ f.name # ""
              /\ f.lon \notin {NaN, Infinity}
              /\ f.lat \notin {NaN, Infinity}

\* how many features of fs have the source
FromSource(fs, source) == Cardinality({ i \in 1..Len(fs) : fs[i].source = source })

\* C29 (count consistency): on every return path of loadPlanetFeatures (no
\* archive URL, success, failure) total = kmzCount + famousCount = the
\* length of the returned list, kmzCount is the number of returned features
\* with source 'kmz' and famousCount the number with source 'famous'.
C29_CountConsistency ==
    (load.pc = "done" /\ load.impl = "ts")
    => LET r == load.result
       IN  /\ r.total = r.kmzCount + r.famousCount
           /\ r.total = Len(r.features)
           /\ r.kmzCount = FromSource(r.features, "kmz")
           /\ r.famousCount = FromSource(r.features, "famous")

\* a merge that kept two archive features and dropped a curated duplicate
C29_Witness ==
    /\ load.pc = "done" /\ load.impl = "ts" /\ load.cause = "merged"
    /\ load.result.kmzCount = 2
    /\ load.result.famousCount = 2
    /\ Len(load.famous) = 3
    /\ load.result.total = 4

\* ------------------------------------- SpecWait: waiting for the services
\* One feature load and the resolutions of SpecResolve side by side, seen
\* for progress.  A continuation runs once the promise it awaits settles:
\* the steps that wait for the program itself or for a local computation
\* (JSZip) are weakly fair.  The steps that wait for the archive server or
\* for Wikipedia (fetch, reading a response body) are taken when the service
\* answers, which nothing in the code enforces: no fetch is given a signal,
\* a timeout or a race against a timer, so they carry no fairness.
InitWait ==
    /\ currentPlanet = "MOON"
    /\ timelineCache = [k \in CacheKeys |-> NoEntry]
    /\ comparisonMode = FALSE
    /\ comparisonFeatures = << >>
    /\ panelVisible = FALSE
    /\ tasks = EmptyBag
    /\ comparisonEls = FALSE
    /\ call = IdleCall
    /\ geo = NoGeo
    /\ \E impl \in {"ts", "js"}, hasUrl \in BOOLEAN :
          load = [pc |-> "start", impl |-> impl, hasUrl |-> hasUrl,
                  famous |-> << FamousFeature("Copernicus", "Crater", Null, 0 - 20, 10) >>,
                  kml |-> [parserError |-> FALSE, placemarks |-> << >>],
                  cause |-> NoStr, parsed |-> NoParsed, result |-> NoLoadResult]

NextWait == NextLoad \/ NextResolve

SpecWait ==
    /\ InitWait
    /\ [][NextWait]_vars
    /\ WF_vars(loadStart)
    /\ WF_vars(\E out \in {"unzip", "nokml", "ok"} : ZipLoaded(out))
    /\ WF_vars(\E out \in {"reject", "ok"} : KmlTextRead(out))

\* C18 (bounded wait): every feature load that has sent its archive request
\* and every timeline resolution that has sent a knowledge-base request
\* eventually completes with a result, whether or not the service answers.
C18_BoundedWait ==
    /\ (load.pc = "fetch") ~> (load.pc = "done")
    /\ (call.pc \in {"search", "revisions", "fullText", "intro"}) ~> (call.pc = "done")

\* ====================================================== SpecBounds: tiles
\* A selection rectangle (app.js) or a selected area (page.tsx) filters the
\* loaded features and, in app.js, lists the catalogued regions it meets.
\* Degrees are integers; box corners come from BoxLats x BoxLons, points
\* from a finer grid that has values outside, on and between the corners.
BoxLats == {0, 10, 20}
BoxLons == {0 - 170, 0, 170}
PointLats == {0 - 5, 0, 5, 10, 15, 20, 25}
PointLons == {0 - 175, 0 - 170, 0 - 90, 0, 90, 170, 179}

BoundingBox(north, south, east, west) ==
    [north |-> north, south |-> south, east |-> east, west |-> west]
Boxes ==
    { BoundingBox(n, s, e, w) : n \in BoxLats, s \in BoxLats, e \in BoxLons, w \in BoxLons }
Point(lat, lon) == [lat |-> lat, lon |-> lon]
Points == { Point(lat, lon) : lat \in PointLats, lon \in PointLons }

\* variant: the ends of the intervals are outside
isPointInBounds_exclusive(lat, lon, bounds) ==
    LET latMatch == lat > bounds.south /\ lat < bounds.north
        lonMatch == IF bounds.west <= bounds.east
                    THEN lon > bounds.west /\ lon < bounds.east
                    ELSE lon > bounds.west \/ lon < bounds.east
    IN  latMatch /\ lonMatch

isPointInBounds(lat, lon, bounds) ==
    LET latMatch == lat >= bounds.south /\ lat <= bounds.north
        lonMatch == IF bounds.west <= bounds.east
                    THEN lon >= bounds.west /\ lon <= bounds.east
                    ELSE lon >= bounds.west \/ lon <= bounds.east
    IN  latMatch /\ lonMatch

\* area-selection.ts
filterFeaturesByBounds(featureList, bounds) ==
    SelectSeq(featureList, LAMBDA feature : isPointInBounds(feature.lat, feature.lon, bounds))

\* app.js: the filter callback carries its own copy of the test
filterFeaturesByTile(featureList, bounds) ==
    LET keep(f) ==
            LET lon == f.lon
                lat == f.lat
                latMatch == lat >= bounds.south /\ lat <= bounds.north
                lonMatch == IF bounds.west <= bounds.east
                            THEN lon >= bounds.west /\ lon <= bounds.east
                            ELSE lon >= bounds.west \/ lon <= bounds.east
            IN  latMatch /\ lonMatch
    IN  SelectSeq(featureList, keep)

\* variant: boxes that only touch do not intersect
boundsIntersect_open(bounds1, bounds2) ==
    ~ (\/ bounds1.east <= bounds2.west
       \/ bounds1.west >= bounds2.east
       \/ bounds1.north <= bounds2.south
       \/ bounds1.south >= bounds2.north)

boundsIntersect(bounds1, bounds2) ==
    ~ (\/ bounds1.east < bounds2.west
       \/ bounds1.west > bounds2.east
       \/ bounds1.north < bounds2.south
       \/ bounds1.south > bounds2.north)

Region(name, bounds) == [name |-> name, bounds |-> bounds]

findIntersectingGeographicFeatures(tileBounds, planetFeatures) ==
    SelectSeq(planetFeatures, LAMBDA feature : boundsIntersect(tileBounds, feature.bounds))

\* one loaded feature or none, one catalogued region or none
InitBounds ==
    /\ currentPlanet = "MOON"
    /\ timelineCache = [k \in CacheKeys |-> NoEntry]
    /\ comparisonMode = FALSE
    /\ comparisonFeatures = << >>
    /\ panelVisible = FALSE
    /\ tasks = EmptyBag
    /\ comparisonEls = FALSE
    /\ call = IdleCall
    /\ load = NoLoad
    /\ \E impl \in {"js", "ts"}, bounds \in Boxes,
          featureList \in {<< >>} \cup { <<p>> : p \in Points },
          planetFeatures \in {<< >>} \cup { << Region("region", b) >> : b \in Boxes } :
          /\ featureList = << >> \/ planetFeatures = << >>
          /\ impl = "ts" => planetFeatures = << >>
          /\ geo = [pc |-> "selecting", impl |-> impl, bounds |-> bounds,
                    features |-> featureList, planetFeatures |-> planetFeatures,
                    filtered |-> << >>, largeFeatures |-> << >>]

BoundsFrame == UNCHANGED appVars /\ UNCHANGED << call, load >>

\* app.js: the rectangle was drawn, dragged or resized
updateRectangleBounds ==
    /\ geo.pc = "selecting"
    /\ geo.impl = "js"
    /\ geo' = [geo EXCEPT !.pc = "selected",
                          !.largeFeatures =
                              findIntersectingGeographicFeatures(geo.bounds, geo.planetFeatures),
                          !.filtered = filterFeaturesByTile(geo.features, geo.bounds)]
    /\ BoundsFrame

\* page.tsx: an area was selected on the globe
handleAreaSelect ==
    /\ geo.pc = "selecting"
    /\ geo.impl = "ts"
    /\ geo' = [geo EXCEPT !.pc = "selected",
                          !.filtered = filterFeaturesByBounds(geo.features, geo.bounds)]
    /\ BoundsFrame

NextBounds ==
    \/ updateRectangleBounds
    \/ handleAreaSelect

SpecBounds == InitBounds /\ [][NextBounds]_vars

\* C11 (point in bounds): a feature is kept by the bounds filter exactly when
\* south <= lat <= north and either west <= east and west <= lon <= east, or
\* west > east and (lon >= west or lon <= east); every interval end is inside.
C11_PointInBounds ==
    geo.pc = "selected" =>
        LET b == geo.bounds
            inside(f) ==
                /\ b.south <= f.lat /\ f.lat <= b.north
                /\ \/ b.west <= b.east /\ b.west <= f.lon /\ f.lon <= b.east
                   \/ b.west > b.east /\ (f.lon >= b.west \/ f.lon <= b.east)
        IN  geo.filtered = SelectSeq(geo.features, inside)

\* a point exactly at lon = west of a box that crosses the antimeridian, and
\* on its northern edge, was kept
C11_Witness ==
    /\ geo.pc = "selected"
    /\ geo.impl = "ts"
    /\ geo.bounds.west > geo.bounds.east
    /\ Len(geo.features) = 1
    /\ geo.features[1].lon = geo.bounds.west
    /\ geo.features[1].lat = geo.bounds.north
    /\ geo.filtered = geo.features

WellFormedBox(b) == b.south <= b.north /\ b.west <= b.east

\* C14 (box intersection): for well-formed boxes that do not cross the
\* antimeridian, the rectangle meets a region exactly when some point lies in
\* both boxes under isPointInBounds, and the test is symmetric; boxes that
\* only touch on an edge intersect.
C14_BoxIntersection ==
    (/\ geo.pc = "selected"
     /\ geo.impl = "js"
     /\ Len(geo.planetFeatures) = 1
     /\ WellFormedBox(geo.bounds)
     /\ WellFormedBox(geo.planetFeatures[1].bounds)) =>
        LET a == geo.bounds
            b == geo.planetFeatures[1].bounds
            common == \E p \in Points : /\ isPointInBounds(p.lat, p.lon, a)
                                        /\ isPointInBounds(p.lat, p.lon, b)
        IN  /\ (Len(geo.largeFeatures) = 1) <=> common
            /\ Len(geo.largeFeatures) = Len(findIntersectingGeographicFeatures(b, << Region("tile", a) >>))

\* the rectangle's east edge is the region's west edge, and the region is listed
C14_Witness ==
    /\ geo.pc = "selected"
    /\ geo.impl = "js"
    /\ Len(geo.planetFeatures) = 1
    /\ WellFormedBox(geo.bounds)
    /\ WellFormedBox(geo.planetFeatures[1].bounds)
    /\ geo.bounds.east = geo.planetFeatures[1].bounds.west
    /\ geo.bounds.west < geo.bounds.east
    /\ geo.planetFeatures[1].bounds.west < geo.planetFeatures[1].bounds.east
    /\ Len(geo.largeFeatures) = 1

\* ============================================ SpecRegions: withinRegion
\* loadFeatures (app.js) assigns a region to every merged feature that has
\* none.  The catalog is the one of geographic-features; bounds are whole
\* degrees there.
MaxFeatures == 2
MaxPasses == 2

GEOGRAPHIC_FEATURES(planetKey) ==
    CASE planetKey = "Mars" ->
           << Region("Olympus Mons", BoundingBox(25, 12, 0 - 127, 0 - 141)),
              Region("Valles Marineris", BoundingBox(0 - 2, 0 - 18, 0 - 30, 0 - 110)),
              Region("Tharsis Bulge", BoundingBox(25, 0 - 15, 0 - 85, 0 - 135)),
              Region("Hellas Planitia", BoundingBox(0 - 30, 0 - 55, 90, 50)),
              Region("Isidis Planitia", BoundingBox(20, 5, 95, 75)),
              Region("Argyre Planitia", BoundingBox(0 - 42, 0 - 57, 0 - 30, 0 - 55)),
              Region("Utopia Planitia", BoundingBox(55, 35, 130, 90)),
              Region("Chryse Planitia", BoundingBox(35, 15, 0 - 25, 0 - 55)),
              Region("Elysium Planitia", BoundingBox(10, 0 - 5, 160, 130)),
              Region("Syrtis Major Planum", BoundingBox(20, 0 - 5, 80, 60)) >>
      [] planetKey = "Mercury" ->
           << Region("Caloris Planitia", BoundingBox(45, 15, 0 - 175, 165)),
              Region("Borealis Planitia", BoundingBox(85, 60, 0 - 60, 0 - 100)) >>
      [] OTHER -> << >>

HasCatalog(planetKey) == planetKey \in {"Mars", "Mercury"}
PlanetKeys == {"Mars", "Mercury", "Europa"}

\* a loaded feature as region assignment sees it; withinRegion NoStr is null
GeoFeature(name, featureType, lat, lon, withinRegion) ==
    [name |-> name, featureType |-> featureType, lat |-> lat, lon |-> lon,
     withinRegion |-> withinRegion]

\* features of the merged list: from the archive (no region yet) and curated
\* (with or without an explicit region)
Candidates(planetKey) ==
    CASE planetKey = "Mars" ->
           { GeoFeature("Pangboche", "Crater", 20, 0 - 130, NoStr),
             GeoFeature("Noctis Labyrinthus", "Labyrinthus", 0 - 10, 0 - 100, NoStr),
             GeoFeature("Ascraeus Mons", "Mons", 0, 0 - 100, NoStr),
             GeoFeature("Korolev", "Crater", 60, 0, NoStr),
             GeoFeature("Karzok", "Crater", 18, 0 - 132, "Tharsis"),
             GeoFeature("Gale", "Crater", 0 - 5, 138, "Aeolis") }
      [] planetKey = "Mercury" ->
           { GeoFeature("Atget", "Crater", 30, 170, NoStr),
             GeoFeature("Munch", "Crater", 40, 0 - 178, NoStr),
             GeoFeature("Hokusai", "Crater", 70, 0 - 80, NoStr),
             GeoFeature("Debussy", "Crater", 30, 0, NoStr),
             GeoFeature("Raditladi", "Crater", 27, 0 - 119, "Caloris Planitia"),
             GeoFeature("Apollodorus", "Crater", 31, 170, "Caloris Planitia") }
      [] OTHER ->
           { GeoFeature("Pwyll", "Crater", 0 - 25, 90, NoStr),
             GeoFeature("Conamara Chaos", "Chaos", 10, 0 - 90, "Annwn Regio") }

FeatureLists(planetKey) ==
    UNION { [1..n -> Candidates(planetKey)] : n \in 1..MaxFeatures }

\* variant: the last containing entry of the catalog wins
RECURSIVE firstRegion_last(_, _, _)
firstRegion_last(regions, lon, lat) ==
    IF regions = << >> THEN NoStr
    ELSE LET region == regions[Len(regions)]
             bounds == region.bounds
         IN  IF /\ lat >= bounds.south /\ lat <= bounds.north
                /\ lon >= bounds.west /\ lon <= bounds.east
             THEN region.name
             ELSE firstRegion_last(SubSeq(regions, 1, Len(regions) - 1), lon, lat)

\* detectFeatureRegion: the loop over the catalog
RECURSIVE firstRegion(_, _, _)
firstRegion(regions, lon, lat) ==
    IF regions = << >> THEN NoStr
    ELSE LET region == Head(regions)
             bounds == region.bounds
         IN  IF /\ lat >= bounds.south /\ lat <= bounds.north
                /\ lon >= bounds.west /\ lon <= bounds.east
             THEN region.name
             ELSE firstRegion(Tail(regions), lon, lat)

detectFeatureRegion(feature, planetKey) ==
    IF ~HasCatalog(planetKey) THEN NoStr
    ELSE firstRegion(GEOGRAPHIC_FEATURES(planetKey), feature.lon, feature.lat)

\* variant: the region is derived again for every feature
assignRegionsToFeatures_always(featureList, planetKey) ==
    [i \in 1..Len(featureList) |->
        [featureList[i] EXCEPT !.withinRegion = detectFeatureRegion(featureList[i], planetKey)]]

assignRegionsToFeatures(featureList, planetKey) ==
    [i \in 1..Len(featureList) |->
        IF featureList[i].withinRegion = NoStr
        THEN [featureList[i] EXCEPT !.withinRegion = detectFeatureRegion(featureList[i], planetKey)]
        ELSE featureList[i]]

InitRegions ==
    /\ currentPlanet = "MOON"
    /\ timelineCache = [k \in CacheKeys |-> NoEntry]
    /\ comparisonMode = FALSE
    /\ comparisonFeatures = << >>
    /\ panelVisible = FALSE
    /\ tasks = EmptyBag
    /\ comparisonEls = FALSE
    /\ call = IdleCall
    /\ load = NoLoad
    /\ \E planetKey \in PlanetKeys : \E featureList \in FeatureLists(planetKey) :
          geo = [pc |-> "merged", planetKey |-> planetKey, merged |-> featureList,
                 features |-> featureList, first |-> featureList, passes |-> 0]

\* loadFeatures, `assignRegionsToFeatures(features, planetKey)`; a further
\* pass runs over the list the pass before left
assignRegions ==
    /\ geo.pc \in {"merged", "assigned"}
    /\ geo.passes < MaxPasses
    /\ LET assigned == assignRegionsToFeatures(geo.features, geo.planetKey)
       IN  geo' = [geo EXCEPT !.pc = "assigned",
                              !.features = assigned,
                              !.first = IF geo.passes = 0 THEN assigned ELSE geo.first,
                              !.passes = geo.passes + 1]
    /\ BoundsFrame

NextRegions == assignRegions

SpecRegions == InitRegions /\ [][NextRegions]_vars

Crosses(bounds) == bounds.west > bounds.east

\* the catalog indexes whose box contains the point under isPointInBounds
Containing(planetKey, f) ==
    { i \in 1..Len(GEOGRAPHIC_FEATURES(planetKey)) :
        isPointInBounds(f.lat, f.lon, GEOGRAPHIC_FEATURES(planetKey)[i].bounds) }

EarliestContaining(planetKey, f) ==
    IF Containing(planetKey, f) = {} THEN NoStr
    ELSE GEOGRAPHIC_FEATURES(planetKey)[
             CHOOSE i \in Containing(planetKey, f) : \A j \in Containing(planetKey, f) : i <= j].name

C13_NeverOverwrites ==
    geo.pc = "assigned" =>
        /\ Len(geo.features) = Len(geo.merged)
        /\ \A i \in 1..Len(geo.merged) :
              /\ geo.merged[i].withinRegion # NoStr =>
                    geo.features[i].withinRegion = geo.merged[i].withinRegion
              /\ geo.features[i].name = geo.merged[i].name
              /\ geo.features[i].featureType = geo.merged[i].featureType
              /\ geo.features[i].lat = geo.merged[i].lat
              /\ geo.features[i].lon = geo.merged[i].lon
        /\ geo.passes >= 2 => geo.features = geo.first

\* after two passes a curated feature that lies inside a catalogued region
\* of another name still has its curated region
C13_Witness ==
    /\ geo.pc = "assigned"
    /\ geo.passes = 2
    /\ \E i \in 1..Len(geo.merged) :
          /\ geo.merged[i].withinRegion = "Tharsis"
          /\ detectFeatureRegion(geo.merged[i], geo.planetKey) = "Olympus Mons"
          /\ geo.features[i].withinRegion = "Tharsis"
    /\ \E i \in 1..Len(geo.merged) :
          geo.merged[i].withinRegion = NoStr /\ geo.features[i].withinRegion # NoStr

\* C20 (region containment is the bounds-filter membership test): a feature
\* without a region is assigned one exactly when isPointInBounds puts its
\* point in some region box of the catalog, boxes that cross the antimeridian
\* included.
C20_ContainmentIsPointInBounds ==
    geo.pc = "assigned" =>
        \A i \in 1..Len(geo.merged) :
            geo.merged[i].withinRegion = NoStr =>
                (geo.features[i].withinRegion # NoStr <=>
                    Containing(geo.planetKey, geo.merged[i]) # {})

\* ================================== SpecSphere: globe coordinates and back
\* sphericalToCartesian followed by cartesianToSpherical (area-selection.ts)
\* on the angles that are multiples of 45 degrees.  A double is kept as a
\* sign, a magnitude class and an order: "one" is 1, "h" is sqrt(2)/2, "q"
\* is 1/2, and each order is one factor of the rounding residue that
\* Math.sin and Math.cos leave where the exact value is zero
\* (Math.cos(Math.PI / 2) is 6.1e-17, Math.sin(Math.PI) is 1.2e-16).  zero
\* marks an exact zero, which has a sign as every double has.  Components of
\* a Vector3 are kept per unit of radius; results within 1e-6 degrees of a
\* grid angle are that angle.
SphereLats == {0 - 90, 0 - 45, 0, 45, 90}
SphereLons == {0 - 135, 0 - 90, 0 - 45, 0, 45, 90, 135, 180}
Radii == {1, 2}
OffGrid == 999

Num(s, m, ord, zero) == [s |-> s, m |-> m, ord |-> ord, zero |-> zero]

\* Math.sin(THREE.MathUtils.degToRad(deg)); negZero: deg is -0
sinDeg(deg, negZero) ==
    CASE deg = 0 -> Num(IF negZero THEN 0 - 1 ELSE 1, "one", 0, TRUE)
      [] deg = 45 \/ deg = 135 -> Num(1, "h", 0, FALSE)
      [] deg = 0 - 45 \/ deg = 0 - 135 -> Num(0 - 1, "h", 0, FALSE)
      [] deg = 90 -> Num(1, "one", 0, FALSE)
      [] deg = 0 - 90 -> Num(0 - 1, "one", 0, FALSE)
      [] deg = 180 -> Num(1, "one", 1, FALSE)
      [] deg = 0 - 180 -> Num(0 - 1, "one", 1, FALSE)

\* Math.cos(THREE.MathUtils.degToRad(deg))
cosDeg(deg) ==
    CASE deg = 0 -> Num(1, "one", 0, FALSE)
      [] deg = 45 \/ deg = 0 - 45 -> Num(1, "h", 0, FALSE)
      [] deg = 90 \/ deg = 0 - 90 -> Num(1, "one", 1, FALSE)
      [] deg = 135 \/ deg = 0 - 135 -> Num(0 - 1, "h", 0, FALSE)
      [] deg = 180 \/ deg = 0 - 180 -> Num(0 - 1, "one", 0, FALSE)

\* a * b
Times(a, b) ==
    Num(a.s * b.s,
        IF a.m = "one" THEN b.m ELSE IF b.m = "one" THEN a.m ELSE "q",
        a.ord + b.ord,
        a.zero \/ b.zero)

\* THREE.MathUtils.radToDeg(Math.atan2(z, x))
atan2Deg(z, x) ==
    IF z.zero \/ (~x.zero /\ z.ord > x.ord)
    THEN IF x.s = 1 THEN 0 ELSE z.s * 180
    ELSE IF x.zero \/ x.ord > z.ord THEN z.s * 90
    ELSE IF z.m # x.m THEN OffGrid
    ELSE IF x.s = 1 THEN z.s * 45 ELSE z.s * 135

\* THREE.MathUtils.radToDeg(Math.acos(c))
acosDeg(c) ==
    IF c.zero \/ c.ord > 0 THEN 90
    ELSE IF c.m = "one" THEN (IF c.s = 1 THEN 0 ELSE 180)
    ELSE IF c.m = "h" THEN (IF c.s = 1 THEN 45 ELSE 135)
    ELSE OffGrid

Vector3(x, y, z, radius) == [x |-> x, y |-> y, z |-> z, radius |-> radius]

sphericalToCartesian(lat, lon, radius) ==
    LET phi == 90 - lat
        theta == 0 - lon
    IN  Vector3(Times(sinDeg(phi, FALSE), cosDeg(theta)),
                cosDeg(phi),
                Times(sinDeg(phi, FALSE), sinDeg(theta, lon = 0)),
                radius)

\* variant: the sign of the longitude is not flipped back
cartesianToSpherical_unflipped(position) ==
    [lat |-> 90 - acosDeg(position.y), lon |-> atan2Deg(position.z, position.x)]

\* position.y / r is the y component per unit of radius
cartesianToSpherical(position) ==
    LET lat == 90 - acosDeg(position.y)
        lon == 0 - atan2Deg(position.z, position.x)
    IN  [lat |-> lat, lon |-> lon]

NoVector == Vector3(Num(1, "one", 0, TRUE), Num(1, "one", 0, TRUE), Num(1, "one", 0, TRUE), 0)

InitSphere ==
    /\ currentPlanet = "MOON"
    /\ timelineCache = [k \in CacheKeys |-> NoEntry]
    /\ comparisonMode = FALSE
    /\ comparisonFeatures = << >>
    /\ panelVisible = FALSE
    /\ tasks = EmptyBag
    /\ comparisonEls = FALSE
    /\ call = IdleCall
    /\ load = NoLoad
    /\ \E lat \in SphereLats, lon \in SphereLons, radius \in Radii :
          geo = [pc |-> "spherical", lat |-> lat, lon |-> lon, radius |-> radius,
                 position |-> NoVector, back |-> [lat |-> Null, lon |-> Null]]

\* a feature is placed on the globe
placeOnGlobe ==
    /\ geo.pc = "spherical"
    /\ geo' = [geo EXCEPT !.pc = "cartesian",
                          !.position = sphericalToCartesian(geo.lat, geo.lon, geo.radius)]
    /\ BoundsFrame

\* the point on the globe is read back as latitude and longitude
readFromGlobe ==
    /\ geo.pc = "cartesian"
    /\ geo' = [geo EXCEPT !.pc = "back", !.back = cartesianToSpherical(geo.position)]
    /\ BoundsFrame

NextSphere == placeOnGlobe \/ readFromGlobe

SpecSphere == InitSphere /\ [][NextSphere]_vars

MaxListed == 3
Suffixes == {"A", "B", "AA"}
HierarchyNames ==
    { << "Kepler" >>, << "Kepler", "A" >>, << "Kepler", "B" >>, << "Kepler", "AA" >>,
      << "Plato", "A" >>, << "Tycho" >> }

\* name.match(/^(.+?)\s+([A-Z]{1,2})$/)
subfeatureMatch(name) ==
    IF Len(name) >= 2 /\ name[Len(name)] \in Suffixes
    THEN [matched |-> TRUE, parentName |-> SubSeq(name, 1, Len(name) - 1),
          suffix |-> name[Len(name)]]
    ELSE [matched |-> FALSE]

\* the comparator of children.sort: shorter suffixes first, then by letter
suffixBefore(a, b) ==
    LET length(s) == IF s = "AA" THEN 2 ELSE 1
        rank(s) == CASE s = "A" -> 1 [] s = "AA" -> 2 [] s = "B" -> 3
    IN  IF length(a) # length(b) THEN length(a) < length(b) ELSE rank(a) < rank(b)

RECURSIVE insertChild(_, _)
insertChild(sorted, child) ==
    IF sorted = << >> THEN << child >>
    ELSE IF suffixBefore(child.suffix, Head(sorted).suffix) THEN << child >> \o sorted
    ELSE << Head(sorted) >> \o insertChild(Tail(sorted), child)

RECURSIVE sortChildren(_, _)
sortChildren(sorted, rest) ==
    IF rest = << >> THEN sorted ELSE sortChildren(insertChild(sorted, Head(rest)), Tail(rest))

\* first pass: childMap.get(parentName), in list order
childMap(featureList, parentName) ==
    LET isChild(feature) ==
            /\ subfeatureMatch(feature.name).matched
            /\ subfeatureMatch(feature.name).parentName = parentName
        children == SelectSeq(featureList, isChild)
    IN  [i \in 1..Len(children) |->
            [feature |-> children[i], suffix |-> subfeatureMatch(children[i].name).suffix]]

RECURSIVE secondPass(_, _, _, _)
\* second pass, from the features still to visit
secondPass(featureList, rest, processedChildren, hierarchy) ==
    IF rest = << >> THEN hierarchy
    ELSE LET feature == Head(rest)
             children == sortChildren(<< >>, childMap(featureList, feature.name))
         IN  IF feature.name \in processedChildren
             THEN secondPass(featureList, Tail(rest), processedChildren, hierarchy)
             ELSE IF subfeatureMatch(feature.name).matched
             THEN secondPass(featureList, Tail(rest),
                             processedChildren \cup {feature.name}, hierarchy)
             ELSE secondPass(featureList, Tail(rest),
                             processedChildren
                                 \cup { children[i].feature.name : i \in 1..Len(children) },
                             Append(hierarchy,
                                    [feature |-> feature,
                                     children |-> [i \in 1..Len(children) |->
                                                      children[i].feature]]))

organizeFeatureHierarchy(featureList) == secondPass(featureList, featureList, {}, << >>)

InitHierarchy ==
    /\ currentPlanet = "MOON"
    /\ timelineCache = [k \in CacheKeys |-> NoEntry]
    /\ comparisonMode = FALSE
    /\ comparisonFeatures = << >>
    /\ panelVisible = FALSE
    /\ tasks = EmptyBag
    /\ comparisonEls = FALSE
    /\ call = IdleCall
    /\ load = NoLoad
    /\ \E n \in 0..MaxListed : \E names \in [1..n -> HierarchyNames] :
          geo = [pc |-> "loaded",
                 featureList |-> [i \in 1..n |-> [name |-> names[i]]],
                 hierarchy |-> << >>]

\* displayFeatures(featureList): the hierarchy it renders
displayFeatures ==
    /\ geo.pc = "loaded"
    /\ geo' = [geo EXCEPT !.pc = "displayed",
                          !.hierarchy = organizeFeatureHierarchy(geo.featureList)]
    /\ BoundsFrame

NextHierarchy == displayFeatures

SpecHierarchy == InitHierarchy /\ [][NextHierarchy]_vars

\* how often the name is listed, as an item or as a child of an item
TimesListed(hierarchy, name) ==
    Cardinality({ i \in 1..Len(hierarchy) : hierarchy[i].feature.name = name })
    + Cardinality({ ij \in (1..Len(hierarchy)) \X (1..MaxListed) :
                      /\ ij[2] <= Len(hierarchy[ij[1]].children)
                      /\ hierarchy[ij[1]].children[ij[2]].name = name })

\* C24 (hierarchy keeps every feature): each feature of the list is in the
\* output exactly once, as a top-level item or as a child of the item whose
\* name is its parent name; a feature named '<parent> <1-2 capitals>' with
\* no top-level <parent> is a top-level item; no feature is its own child.
C24_HierarchyKeepsEveryFeature ==
    geo.pc = "displayed" =>
        LET featureList == geo.featureList
            hierarchy == geo.hierarchy
            topLevel == { hierarchy[i].feature.name : i \in 1..Len(hierarchy) }
        IN  /\ \A k \in 1..Len(featureList) :
                  TimesListed(hierarchy, featureList[k].name)
                      = Cardinality({ j \in 1..Len(featureList) :
                                        featureList[j].name = featureList[k].name })
            /\ \A i \in 1..Len(hierarchy) : \A j \in 1..Len(hierarchy[i].children) :
                  /\ hierarchy[i].children[j].name # hierarchy[i].feature.name
                  /\ subfeatureMatch(hierarchy[i].children[j].name).matched
                  /\ subfeatureMatch(hierarchy[i].children[j].name).parentName
                         = hierarchy[i].feature.name
            /\ \A k \in 1..Len(featureList) :
                  LET m == subfeatureMatch(featureList[k].name)
                  IN  (m.matched /\ \A j \in 1..Len(featureList) :
                                        featureList[j].name # m.parentName)
                      => featureList[k].name \in topLevel

\* ================================== SpecScreen: the feature details box
\* showFeatureDetails of app.js outside comparison mode, with the sidebar it
\* writes.  geo is the sidebar: box is the feature the .feature-details-box
\* is for (NoStr without a box), section what the element with id
\* timelineSection holds ("none" without such an element, "loading", or
\* "timeline"), shown the feature whose timeline the section lists.
Sidebar(box, section, shown) ==
    [pc |-> "sidebar", box |-> box, section |-> section, shown |-> shown]

InitScreen ==
    /\ currentPlanet = "MARS"
    /\ timelineCache = [k \in CacheKeys |-> NoEntry]
    /\ comparisonMode = FALSE
    /\ comparisonFeatures = << >>
    /\ panelVisible = FALSE
    /\ tasks = EmptyBag
    /\ comparisonEls = FALSE
    /\ call = IdleCall
    /\ load = NoLoad
    /\ geo = Sidebar(NoStr, "none", NoStr)

\* showFeatureDetails(feature) up to its first await, or to its end when
\* the feature is not notable or its timeline is cached (app.js 988-1067)
showDetailsBox(feature) ==
    /\ feature \in FeatureList(currentPlanet)
    /\ IF ~isNotableFeature(feature)
       THEN /\ geo' = Sidebar(feature.name, "none", NoStr)
            /\ UNCHANGED tasks
       ELSE IF cacheHit(cacheKey(currentPlanet, feature.name))
       THEN /\ geo' = Sidebar(feature.name, "timeline", feature.name)
            /\ UNCHANGED tasks
       ELSE /\ BagCardinality(tasks) < MaxTasks
            /\ geo' = Sidebar(feature.name, "loading", NoStr)
            /\ tasks' = Put(tasks, Task("details", << feature >>, currentPlanet, 1))
    /\ UNCHANGED << currentPlanet, timelineCache, comparisonMode, comparisonFeatures,
                    panelVisible, comparisonEls, call, load >>

\* the continuation of a suspended showFeatureDetails: the timeline is
\* generated and stored, then written into the element with id
\* timelineSection if the document has one (app.js 1032-1056)
timelineArrives(task, wikiData) ==
    /\ task \in InFlight
    /\ wikiData \in Returned(CurFeature(task).name)
    /\ Finish(task, wikiData)
    /\ geo' = IF generateTimeline(CurFeature(task), wikiData, currentPlanet).ok
                 /\ geo.section # "none"
              THEN Sidebar(geo.box, "timeline", CurFeature(task).name)
              ELSE geo
    /\ UNCHANGED << currentPlanet, comparisonFeatures, panelVisible, comparisonEls,
                    call, load >>

\* loadPlanet(planetKey): clearTileSelection resets the sidebar
changeBody(planetKey) ==
    /\ planetKey # currentPlanet
    /\ currentPlanet' = planetKey
    /\ geo' = Sidebar(NoStr, "none", NoStr)
    /\ UNCHANGED << timelineCache, comparisonMode, comparisonFeatures, panelVisible, tasks,
                    comparisonEls, call, load >>

NextScreen ==
    \/ \E feature \in AllFeatures : showDetailsBox(feature)
    \/ \E task \in InFlight : \E wikiData \in Returned(CurFeature(task).name) :
          timelineArrives(task, wikiData)
    \/ \E planetKey \in Bodies : changeBody(planetKey)

SpecScreen == InitScreen /\ [][NextScreen]_vars

\* C25 (no stale timeline on screen): when feature B is selected before the
\* resolution of feature A has completed, the details box of B never lists
\* the timeline of A, in any order of the two completions.
C25_NoStaleTimeline ==
    geo.section = "timeline" => geo.shown = geo.box

\* ============================= SpecSelect: body selection and feature load
\* The load a body selection starts and the feature list its completion
\* assigns: the effect on selectedPlanet of app/page.tsx (impl "ts"), and
\* loadPlanet with loadFeatures of app.js (impl "js").  geo.loaded is the
\* body whose load result is the current feature list (allFeatures and
\* featureStats, or `features`), NoStr for the empty list.
MaxLoads == 3

Loaded(impl, body) == [pc |-> "features", impl |-> impl, loaded |-> body]

InitSelect ==
    /\ timelineCache = [k \in CacheKeys |-> NoEntry]
    /\ comparisonMode = FALSE
    /\ comparisonFeatures = << >>
    /\ panelVisible = FALSE
    /\ tasks = EmptyBag
    /\ comparisonEls = FALSE
    /\ call = IdleCall
    /\ load = NoLoad
    /\ \/ currentPlanet = NoStr /\ geo = Loaded("ts", NoStr)
       \/ currentPlanet = "MOON" /\ geo = Loaded("js", "MOON")

\* the planet selector changes: setSelectedPlanet and the effect it
\* triggers up to `await loadPlanetFeatures(...)` (page.tsx 386-424), or
\* loadPlanet up to the first await of loadFeatures (app.js 63-102, 204-241)
selectBody(planetKey) ==
    /\ planetKey # currentPlanet
    /\ planetKey = NoStr => geo.impl = "ts"
    /\ currentPlanet' = planetKey
    /\ IF planetKey = NoStr
       THEN /\ geo' = Loaded(geo.impl, NoStr)
            /\ UNCHANGED tasks
       ELSE /\ BagCardinality(tasks) < MaxLoads
            /\ tasks' = Put(tasks, Task("load", << >>, planetKey, 1))
            /\ UNCHANGED geo
    /\ UNCHANGED << timelineCache, comparisonMode, comparisonFeatures, panelVisible,
                    comparisonEls, call, load >>

\* a suspended load resumes with its result: setAllFeatures(result.features)
\* and setFeatureStats (page.tsx 407-412), or `features = ...` (app.js 285)
featuresLoaded(task) ==
    /\ task \in InFlight
    /\ tasks' = Take(tasks, task)
    /\ geo' = Loaded(geo.impl, task.body)
    /\ UNCHANGED << currentPlanet, timelineCache, comparisonMode, comparisonFeatures,
                    panelVisible, comparisonEls, call, load >>

NextSelect ==
    \/ \E planetKey \in ResolveBodies \cup {NoStr} : selectBody(planetKey)
    \/ \E task \in InFlight : featuresLoaded(task)

SpecSelect == InitSelect /\ [][NextSelect]_vars

\* C28 (loaded features belong to the selected body): once every load in
\* flight has completed, the current feature list and its counts are the
\* result of the load for the body selected last, in whatever order the
\* loads finished.
C28_FeaturesOfSelectedBody ==
    tasks = EmptyBag => geo.loaded = currentPlanet

\* =================================== SpecCompare: the comparison selection
\* The comparison set under selections in comparison mode: addToComparison
\* and toggleComparisonMode of app.js (impl "js"), handleComparisonAdd and
\* toggleComparisonMode of app/page.tsx (impl "ts").  In page.tsx the
\* handlers are closures over the comparisonFeatures and comparisonMode of
\* the render that created them: geo.rendered is that render's view, which
\* a state update reaches when React renders again.  generateTimeline of
\* page.tsx awaits nothing, so handleComparisonAdd runs to its end before
\* the next event.
MaxCompared == 5

CompareFeatures ==
    { f \in ResolveFeatures :
        f.name \in {"Olympus Mons", "Gale", "Tycho", "Mare Imbrium", "Ma'adim Vallis", "Beer"} }

Rendered(features, mode) == [features |-> features, mode |-> mode]

InitCompare ==
    /\ currentPlanet = "MARS"
    /\ timelineCache = [k \in CacheKeys |-> NoEntry]
    /\ comparisonMode = FALSE
    /\ comparisonFeatures = << >>
    /\ panelVisible = FALSE
    /\ tasks = EmptyBag
    /\ comparisonEls = FALSE
    /\ call = IdleCall
    /\ load = NoLoad
    /\ \E impl \in {"js", "ts"} :
          geo = [pc |-> "compare", impl |-> impl, rendered |-> Rendered(<< >>, FALSE)]

\* app.js: the comparison button
toggleComparison ==
    /\ geo.impl = "js"
    /\ toggleComparisonMode

\* app.js: showFeatureDetails(feature) in comparison mode (990-993)
selectForComparison(feature) ==
    /\ geo.impl = "js"
    /\ comparisonMode
    /\ Len(comparisonFeatures) < MaxCompared
    /\ comparisonFeatures' = addToComparison(feature)
    /\ UNCHANGED << currentPlanet, timelineCache, comparisonMode, panelVisible, tasks,
                    comparisonEls, call, load, geo >>

\* page.tsx: toggleComparisonMode of the last render
toggleComparisonMode_page ==
    /\ geo.impl = "ts"
    /\ IF geo.rendered.mode
       THEN /\ comparisonMode' = FALSE
            /\ UNCHANGED comparisonFeatures
       ELSE /\ comparisonFeatures' = << >>
            /\ comparisonMode' = TRUE
    /\ UNCHANGED << currentPlanet, timelineCache, panelVisible, tasks, comparisonEls,
                    call, load, geo >>

\* page.tsx: handleComparisonAdd(feature) of the last render, which is the
\* click handler while that render's comparisonMode is set
handleComparisonAdd(feature) ==
    /\ geo.impl = "ts"
    /\ geo.rendered.mode
    /\ Len(comparisonFeatures) < MaxCompared
    /\ LET seen == geo.rendered.features
       IN  IF \/ Len(seen) >= 4
              \/ \E i \in 1..Len(seen) : seen[i].name = feature.name
              \/ feature.name = NoStr
              \/ feature.featureType = NoStr
           THEN UNCHANGED << comparisonFeatures, comparisonMode >>
           ELSE /\ comparisonFeatures' = Append(comparisonFeatures, feature)
                /\ comparisonMode' = IF Len(seen) + 1 >= 2 THEN FALSE ELSE comparisonMode
    /\ UNCHANGED << currentPlanet, timelineCache, panelVisible, tasks, comparisonEls,
                    call, load, geo >>

\* page.tsx: React renders the component with the current state
render ==
    /\ geo.impl = "ts"
    /\ geo.rendered # Rendered(comparisonFeatures, comparisonMode)
    /\ geo' = [geo EXCEPT !.rendered = Rendered(comparisonFeatures, comparisonMode)]
    /\ UNCHANGED << appVars, call, load >>

NextCompare ==
    \/ toggleComparison
    \/ \E feature \in CompareFeatures : selectForComparison(feature)
    \/ toggleComparisonMode_page
    \/ \E feature \in CompareFeatures : handleComparisonAdd(feature)
    \/ render

SpecCompare == InitCompare /\ [][NextCompare]_vars

\* C30 (comparison set has no duplicates and stays bounded): after any
\* sequence of comparison-mode selections, also two selections of the same
\* feature before the first one's state update has completed, the
\* comparison set never holds two entries of the same feature name and
\* never more than 4 entries.
C30_NoDuplicatesAtMostFour ==
    /\ \A i, j \in 1..Len(comparisonFeatures) :
          i # j => comparisonFeatures[i].name # comparisonFeatures[j].name
    /\ Len(comparisonFeatures) <= 4

====
